---------------------------- MODULE Spec2Model ----------------------------
(***************************************************************************)
(* A model of the Lua front end of Lua.js: the Lexer (src/lexer/lexer.ts), *)
(* the Parser (src/parser/parser.ts), the AST list nodes                   *)
(* (src/parser/ast-node/base.ts) and the Compiler                          *)
(* (src/compiler/compiler.ts).                                             *)
(*                                                                         *)
(* Each component has its own specification over the shared variables:     *)
(*   LexSpec / LexFairSpec  the lexer, one step per getNextToken call and   *)
(*                          per iteration of its two scanning loops        *)
(*   ParseSpec              the parser applied to bounded token streams     *)
(*   CompileSpec            the compiler driven statement by statement      *)
(*   NodeSpec               child-list edits on list nodes                  *)
(***************************************************************************)
EXTENDS Integers, Sequences, FiniteSets, TLC

VARIABLES
    \* Lexer (class Lexer)
    code,            \* the input, a sequence of one-character strings
    curPos,          \* Lexer.curPos (0-based)
    tokens,          \* Lexer.tokens
    lexState,        \* where lex() is: "main", "string", "delimiter", "done", "error"
    lexError,        \* the message of the thrown Error, "" while none
    quote,           \* consumeSimpleString: the opening quote
    string,          \* consumeSimpleString: the accumulated string
    delimiterDepth,  \* consumeDelimiter: number of = in the opening bracket
    start,           \* consumeDelimiter: position after the opening bracket
    inComment,       \* consumeDelimiter was entered from consumeLongComment
    \* Parser (class Parser): the fields of the object, the state of the
    \* parse() or parseExpression() call and its result; it reads tokens
    parser,
    \* Compiler (class Compiler): the fields of the object and of its
    \* currentProto, the rest of the compile() call and its state
    compiler,
    \* List nodes (class ASTNodeList): the child list of every node
    children,
    nodeError,       \* the message of the Error the last list edit threw
    \* Traversal (ASTNode.traverse): the condition of the last call and the
    \* nodes its callback was given, in the order of the calls
    traversal,
    \* Registers (Compiler.allocateRegister): the registers its calls have
    \* returned
    returned

lexVars == <<code, curPos, tokens, lexState, lexError, quote, string,
             delimiterDepth, start, inComment>>

vars == <<lexVars, parser, compiler, children, nodeError, traversal, returned>>

(***************************************************************************)
(* Characters.  A character is a one-character string; NUL stands for the  *)
(* "\0" the lexer reads at and past the end of the input.                  *)
(***************************************************************************)
NUL == "<NUL>"
TAB == "\t"
NEWLINE == "\n"
CR == "\r"
BACKSLASH == "\\"
DQUOTE == "\""
SQUOTE == "'"
BACKSPACE == "<BS>"
FORMFEED == "<FF>"
VTAB == "<VT>"

Digits == <<"0", "1", "2", "3", "4", "5", "6", "7", "8", "9">>
LowerCase == <<"a", "b", "c", "d", "e", "f", "g", "h", "i", "j", "k", "l", "m",
               "n", "o", "p", "q", "r", "s", "t", "u", "v", "w", "x", "y", "z">>
UpperCase == <<"A", "B", "C", "D", "E", "F", "G", "H", "I", "J", "K", "L", "M",
               "N", "O", "P", "Q", "R", "S", "T", "U", "V", "W", "X", "Y", "Z">>

Range(s) == {s[i] : i \in 1..Len(s)}
\* the sequences over S of length up to n
SeqsUpTo(S, n) == UNION {[1..k -> S] : k \in 0..n}
IndexOf(s, c) == CHOOSE i \in 1..Len(s) : s[i] = c

RECURSIVE Join(_)
Join(s) == IF s = <<>> THEN "" ELSE Head(s) \o Join(Tail(s))

RECURSIVE Repeat(_, _)
Repeat(c, n) == IF n <= 0 THEN "" ELSE c \o Repeat(c, n - 1)

\* String.prototype.charCodeAt(0) on the characters the model uses
charCodeAt(c) ==
    CASE c \in Range(Digits) -> 47 + IndexOf(Digits, c)
      [] c \in Range(LowerCase) -> 96 + IndexOf(LowerCase, c)
      [] c \in Range(UpperCase) -> 64 + IndexOf(UpperCase, c)
      [] c = "_" -> 95
      [] c = TAB -> 9
      [] c = NEWLINE -> 10
      [] c = CR -> 13
      [] c = " " -> 32
      [] c = DQUOTE -> 34
      [] c = SQUOTE -> 39
      [] c = BACKSLASH -> 92
      [] c = NUL -> 0
      [] OTHER -> -1

\* String.fromCharCode: the character with that code, or a tagged code for
\* a character the model has no name for
fromCharCode(n) ==
    CASE n \in 48..57 -> Digits[n - 47]
      [] n \in 97..122 -> LowerCase[n - 96]
      [] n \in 65..90 -> UpperCase[n - 64]
      [] n = 95 -> "_"
      [] n = 9 -> TAB
      [] n = 10 -> NEWLINE
      [] n = 13 -> CR
      [] n = 32 -> " "
      [] n = 34 -> DQUOTE
      [] n = 39 -> SQUOTE
      [] n = 92 -> BACKSLASH
      [] OTHER -> "<chr " \o ToString(n) \o ">"

(***************************************************************************)
(* Lexer constants (src/lexer/constants.ts)                                *)
(***************************************************************************)
KEYWORDS == {"while", "do", "end", "for", "local", "repeat", "until", "return",
             "in", "if", "else", "elseif", "function", "then", "break"}
OPERATORS == {"^", "*", "/", "%", "+", "-", "<", ">", "#",
              "<=", ">=", "==", "~=", "and", "or", "not", ".."}
VALID_CHARACTERS == {"(", ")", "[", "]", "{", "}", ".", ",", ";", ":", "="}
OPERATOR_KEYWORDS == {"and", "or", "not"}
CONSTANT_KEYWORDS == {"nil", "true", "false"}

\* a table lookup that misses gives "", which is falsy like undefined
TOKENIZER_ESCAPED_CHARACTER_CONVERSIONS(c) ==
    CASE c = "b" -> BACKSPACE
      [] c = "f" -> FORMFEED
      [] c = "n" -> NEWLINE
      [] c = "r" -> CR
      [] c = "t" -> TAB
      [] c = "v" -> VTAB
      [] c = BACKSLASH -> BACKSLASH
      [] c = DQUOTE -> DQUOTE
      [] c = SQUOTE -> SQUOTE
      [] OTHER -> ""

\* SPECIAL_CHARS_MAP[c] ?? c
SPECIAL_CHARS_MAP(c) ==
    CASE c = NUL -> "<EOF>"
      [] c = NEWLINE -> "<newline>"
      [] c = TAB -> "<tab>"
      [] c = " " -> "<space>"
      [] c = CR -> "<CR>"
      [] OTHER -> c

Token(type, value) == [type |-> type, value |-> value]


(***************************************************************************)
(* Lexer utilities                                                         *)
(***************************************************************************)
getCharacterFromPosition(n) ==
    IF n >= 0 /\ n < Len(code) THEN code[n + 1] ELSE NUL

curChar == getCharacterFromPosition(curPos)
peek(n) == getCharacterFromPosition(curPos + n)

\* this.code.slice(from, to) for 0 <= from, as one string
slice(from, to) ==
    LET hi == IF to < 0 THEN Len(code) + to
              ELSE IF to > Len(code) THEN Len(code) ELSE to
    IN  IF hi <= from THEN "" ELSE Join(SubSeq(code, from + 1, hi))

isQuoteString(char) == char = SQUOTE \/ char = DQUOTE
isIdentifierStart(char) ==
    LET c == charCodeAt(char)
    IN  (c >= 97 /\ c <= 122) \/ (c >= 65 /\ c <= 90) \/ c = 95
isIdentifier(char) ==
    LET c == charCodeAt(char)
    IN  (c >= 97 /\ c <= 122) \/ (c >= 65 /\ c <= 90)
        \/ (c >= 48 /\ c <= 57) \/ c = 95
isNumber(char) ==
    LET c == charCodeAt(char) IN c >= 48 /\ c <= 57
isHexNumber(char) ==
    LET c == charCodeAt(char)
    IN  (c >= 48 /\ c <= 57) \/ (c >= 97 /\ c <= 102) \/ (c >= 65 /\ c <= 70)
isScientificNotationStart(char) == char = "e" \/ char = "E"
isWhitespace(char) == char = " " \/ char = TAB \/ char = NEWLINE

isDelimiterAt(p) ==
    /\ getCharacterFromPosition(p) = "["
    /\ getCharacterFromPosition(p + 1) \in {"[", "="}
isDelimiter == isDelimiterAt(curPos)
isLongString == isDelimiter
isComment == curChar = "-" /\ peek(1) = "-"
isHexadecimalStart == curChar = "0" /\ peek(1) \in {"x", "X"}
isVararg == curChar = "." /\ peek(1) = "." /\ peek(2) = "."
isNumberStart == isNumber(curChar) \/ (curChar = "." /\ isNumber(peek(1)))

\* "while (P(this.peek(1))) advance(1); advance(1)" started at p: the
\* position it stops at
RECURSIVE SkipWhileNext(_, _)
SkipWhileNext(P(_), p) ==
    IF P(getCharacterFromPosition(p + 1)) THEN SkipWhileNext(P, p + 1) ELSE p + 1

\* "while (this.curChar === c) advance(1)" started at p
RECURSIVE SkipWhileChar(_, _)
SkipWhileChar(c, p) ==
    IF getCharacterFromPosition(p) = c THEN SkipWhileChar(c, p + 1) ELSE p

consumeWhitespace(p) == SkipWhileNext(isWhitespace, p)
consumeDigit(p) == SkipWhileNext(isNumber, p)
consumeIdentifier(p) == SkipWhileNext(isIdentifier, p)

\* consumeSimpleComment started at p
RECURSIVE consumeSimpleComment(_)
consumeSimpleComment(p) ==
    IF getCharacterFromPosition(p) \in {NEWLINE, NUL} THEN p
    ELSE consumeSimpleComment(p + 1)

OPERATOR_WORDS ==
    {<<"^">>, <<"*">>, <<"/">>, <<"%">>, <<"+">>, <<"-">>, <<"<">>, <<">">>,
     <<"#">>, <<"<", "=">>, <<">", "=">>, <<"=", "=">>, <<"~", "=">>,
     <<"a", "n", "d">>, <<"o", "r">>, <<"n", "o", "t">>, <<".", ".">>}

\* makeTrie(words): the nodes below the root, and the word a node carries
makeTrie(words) == UNION {{SubSeq(w, 1, k) : k \in 1..Len(w)} : w \in words}
OPERATOR_TRIE == makeTrie(OPERATOR_WORDS)
TrieWord(node) == IF node \in OPERATOR_WORDS THEN Join(node) ELSE ""

\* the loop of consumeOperatorIfPossible from position p: index characters
\* have been followed and operator is the word of the node reached
RECURSIVE TrieWalk(_, _, _)
TrieWalk(p, index, operator) ==
    LET path == [i \in 1..(index + 1) |-> getCharacterFromPosition(p + i - 1)]
    IN  IF path \in OPERATOR_TRIE
        THEN TrieWalk(p, index + 1, TrieWord(path))
        ELSE [operator |-> operator, index |-> index]

\* a variant that stops at the first node that carries a word
consumeFirstWord(p) ==
    IF <<getCharacterFromPosition(p)>> \in OPERATOR_WORDS
    THEN [operator |-> getCharacterFromPosition(p), index |-> 1]
    ELSE TrieWalk(p, 0, "")

consumeOperatorIfPossible(p) == TrieWalk(p, 0, "")

(***************************************************************************)
(* Numbers: Number.parseInt(text, 16), Number.parseFloat(text) and         *)
(* Number.prototype.toString() on the texts consumeNumber can hand them.   *)
(***************************************************************************)
CharsOf(from, to) ==
    LET hi == IF to > Len(code) THEN Len(code) ELSE to
    IN  IF hi <= from THEN <<>> ELSE SubSeq(code, from + 1, hi)

RECURSIVE RunLength(_, _, _)
RunLength(P(_), s, i) ==
    IF i <= Len(s) /\ P(s[i]) THEN 1 + RunLength(P, s, i + 1) ELSE 0

HexValue(c) ==
    LET n == charCodeAt(c)
    IN  IF n <= 57 THEN n - 48 ELSE IF n >= 97 THEN n - 87 ELSE n - 55

RECURSIVE FoldDigits(_, _, _)
FoldDigits(s, base, acc) ==
    IF s = <<>> THEN acc
    ELSE FoldDigits(Tail(s), base, acc * base + HexValue(Head(s)))

\* Number.parseInt(text, 16).toString() for a text that starts with 0x
parseIntHexToString(text) ==
    LET n == RunLength(isHexNumber, text, 3)
    IN  IF n = 0 THEN "NaN"
        ELSE ToString(FoldDigits(SubSeq(text, 3, 2 + n), 16, 0))

RECURSIVE StripLeadingZeros(_)
StripLeadingZeros(s) ==
    IF s # <<>> /\ Head(s) = "0" THEN StripLeadingZeros(Tail(s)) ELSE s
RECURSIVE StripTrailingZeros(_)
StripTrailingZeros(s) ==
    IF s # <<>> /\ s[Len(s)] = "0"
    THEN StripTrailingZeros(SubSeq(s, 1, Len(s) - 1)) ELSE s

\* Number.prototype.toString() of the value 0.D * 10^n, D without leading
\* or trailing zeros
NumberToString(D, n) ==
    LET k == Len(D)
        e == n - 1
    IN  IF k = 0 THEN "0"
        ELSE IF k <= n /\ n <= 21 THEN Join(D) \o Repeat("0", n - k)
        ELSE IF 0 < n /\ n <= 21
             THEN Join(SubSeq(D, 1, n)) \o "." \o Join(SubSeq(D, n + 1, k))
        ELSE IF -6 < n /\ n <= 0 THEN "0." \o Repeat("0", -n) \o Join(D)
        ELSE D[1] \o (IF k = 1 THEN "" ELSE "." \o Join(SubSeq(D, 2, k)))
             \o "e" \o (IF e < 0 THEN "-" ELSE "+")
             \o ToString(IF e < 0 THEN -e ELSE e)

\* the digits raw of a mantissa with ni integer digits, times 10^ex
DecimalToString(raw, ni, ex) ==
    LET lead == StripLeadingZeros(raw)
    IN  NumberToString(StripTrailingZeros(lead),
                       ni + ex - (Len(raw) - Len(lead)))

\* the exponent part of text, if any, behind a mantissa that ends at m
ExponentOf(text, m) ==
    LET hasE == m < Len(text) /\ isScientificNotationStart(text[m + 1])
        signed == hasE /\ m + 1 < Len(text) /\ text[m + 2] \in {"-", "+"}
        es == IF signed THEN m + 3 ELSE m + 2       \* first exponent digit
        ne == IF hasE THEN RunLength(isNumber, text, es) ELSE 0
    IN  IF ne = 0 THEN 0
        ELSE (IF signed /\ text[m + 2] = "-" THEN -1 ELSE 1)
             * FoldDigits(SubSeq(text, es, es + ne - 1), 10, 0)

\* text with ni integer digits and, behind a dot, nf fraction digits
MantissaToString(text, ni, hasDot, nf) ==
    IF ni + nf = 0 THEN "NaN"
    ELSE DecimalToString(
             SubSeq(text, 1, ni) \o
                 (IF hasDot THEN SubSeq(text, ni + 2, ni + 1 + nf) ELSE <<>>),
             ni,
             ExponentOf(text, ni + (IF hasDot THEN 1 + nf ELSE 0)))

FractionToString(text, ni, hasDot) ==
    MantissaToString(text, ni, hasDot,
                     IF hasDot THEN RunLength(isNumber, text, ni + 2) ELSE 0)

IntegerToString(text, ni) ==
    FractionToString(text, ni, ni < Len(text) /\ text[ni + 1] = ".")

\* Number.parseFloat(text).toString(): the longest prefix of text that is a
\* decimal literal, printed the way JavaScript prints a number
parseFloatToString(text) == IntegerToString(text, RunLength(isNumber, text, 1))

\* consumeNumber started at p: where it stops and number.toString()
consumeNumber(p) ==
    IF getCharacterFromPosition(p) = "0"
       /\ getCharacterFromPosition(p + 1) \in {"x", "X"}
    THEN LET q == SkipWhileNext(isHexNumber, p + 2)
         IN  [pos |-> q, value |-> parseIntHexToString(CharsOf(p, q))]
    ELSE LET p1 == consumeDigit(p)
             p2 == IF getCharacterFromPosition(p1) = "."
                   THEN consumeDigit(p1 + 1) ELSE p1
             p3 == IF isScientificNotationStart(getCharacterFromPosition(p2))
                   THEN consumeDigit(
                          IF getCharacterFromPosition(p2 + 1) \in {"-", "+"}
                          THEN p2 + 2 ELSE p2 + 1)
                   ELSE p2
         IN  [pos |-> p3, value |-> parseFloatToString(CharsOf(p, p3))]

(***************************************************************************)
(* Lexer steps.  Every position beyond the end of the input reads NUL, so  *)
(* the positions beyond Len(code) + PosSlack are folded back onto          *)
(* Len(code) + 1 .. Len(code) + PosSlack: a cursor that keeps advancing    *)
(* past the end keeps changing, inside a finite state space.               *)
(***************************************************************************)
PosSlack == 3

advanceTo(p) ==
    IF p <= Len(code) + PosSlack THEN p
    ELSE Len(code) + 1 + ((p - Len(code) - 1) % PosSlack)

UnexpectedCharacterError(char, expected) ==
    "Unexpected character '" \o SPECIAL_CHARS_MAP(char)
        \o "', expected '" \o expected \o "'"

\* what one step leaves behind; the fields default to "nothing changed"
LexOutcome(pos, push, state, err) ==
    [pos |-> pos, push |-> push, state |-> state, error |-> err,
     quote |-> quote, string |-> string, depth |-> delimiterDepth,
     start |-> start, inComment |-> inComment]

\* the opening of consumeDelimiter(noExpect) with the cursor on "[" at p
consumeDelimiterOpen(p, noExpect) ==
    LET q == SkipWhileChar("=", p + 1)
        c == getCharacterFromPosition(q)
    IN  IF c # "["
        THEN IF noExpect
             THEN \* return false: consumeLongComment falls back
                  LexOutcome(consumeSimpleComment(q), <<>>, "main", "")
             ELSE LexOutcome(q, <<>>, "error", UnexpectedCharacterError(c, "["))
        ELSE [LexOutcome(q + 1, <<>>, "delimiter", "") EXCEPT
                 !.depth = q - (p + 1), !.start = q + 1, !.inComment = noExpect]

\* getNextToken with the cursor at curPos
getNextToken ==
    LET currentChar == curChar
        p == curPos
    IN  IF isWhitespace(currentChar)
        THEN LexOutcome(consumeWhitespace(p), <<>>, "main", "")
        ELSE IF isIdentifierStart(currentChar)
        THEN LET q == consumeIdentifier(p)
                 identifier == slice(p, q)
                 type == IF identifier \in OPERATOR_KEYWORDS THEN "OPERATOR"
                         ELSE IF identifier \in CONSTANT_KEYWORDS THEN "CONSTANT"
                         ELSE IF identifier \in KEYWORDS THEN "KEYWORD"
                         ELSE "IDENTIFIER"
             IN  LexOutcome(q, <<Token(type, identifier)>>, "main", "")
        ELSE IF isNumberStart
        THEN LET r == consumeNumber(p)
             IN  LexOutcome(r.pos, <<Token("NUMBER", r.value)>>, "main", "")
        ELSE IF isQuoteString(currentChar)
        THEN [LexOutcome(p + 1, <<>>, "string", "") EXCEPT
                 !.quote = currentChar, !.string = ""]
        ELSE IF isLongString
        THEN consumeDelimiterOpen(p, FALSE)
        ELSE IF isComment
        THEN IF isDelimiterAt(p + 2)
             THEN consumeDelimiterOpen(p + 2, TRUE)
             ELSE LexOutcome(consumeSimpleComment(p + 2), <<>>, "main", "")
        ELSE IF isVararg
        THEN LexOutcome(p + 3, <<Token("VARARG", "...")>>, "main", "")
        ELSE LET r == consumeOperatorIfPossible(p)
             IN  IF r.operator # ""
                 THEN LexOutcome(p + r.index,
                                 <<Token("OPERATOR", r.operator)>>, "main", "")
                 ELSE IF currentChar \notin VALID_CHARACTERS
                 THEN LexOutcome(p, <<>>, "error",
                                 "Invalid character: " \o currentChar)
                 ELSE LexOutcome(p + 1, <<Token("CHARACTER", currentChar)>>,
                                 "main", "")

\* a variant whose error names the closing delimiter of depth 0
consumeDelimiterStepNamingNoDepth ==
    LET p == curPos
    IN  IF curChar = "]"
        THEN LET q == SkipWhileChar("=", p + 1)
                 newDelimiterDepth == q - (p + 1)
             IN  IF getCharacterFromPosition(q) = "]"
                    /\ newDelimiterDepth = delimiterDepth
                 THEN LET text == slice(start, (q + 1) - 2 - delimiterDepth)
                      IN  IF inComment
                          THEN \* consumeLongComment: an empty result is falsy
                               LexOutcome(IF text = ""
                                          THEN consumeSimpleComment(q + 1)
                                          ELSE q + 1, <<>>, "main", "")
                          ELSE LexOutcome(q + 1, <<Token("STRING", text)>>,
                                          "main", "")
                 ELSE LexOutcome(q + 1, <<>>, "delimiter", "")
        ELSE IF curChar = NUL
        THEN LexOutcome(p, <<>>, "error",
                 UnexpectedCharacterError(NUL,
                     "]]"))
        ELSE LexOutcome(p + 1, <<>>, "delimiter", "")

\* one iteration of the while (true) of consumeDelimiter, and what follows
\* the loop when the iteration breaks out of it
consumeDelimiterStep ==
    LET p == curPos
    IN  IF curChar = "]"
        THEN LET q == SkipWhileChar("=", p + 1)
                 newDelimiterDepth == q - (p + 1)
             IN  IF getCharacterFromPosition(q) = "]"
                    /\ newDelimiterDepth = delimiterDepth
                 THEN LET text == slice(start, (q + 1) - 2 - delimiterDepth)
                      IN  IF inComment
                          THEN \* consumeLongComment: an empty result is falsy
                               LexOutcome(IF text = ""
                                          THEN consumeSimpleComment(q + 1)
                                          ELSE q + 1, <<>>, "main", "")
                          ELSE LexOutcome(q + 1, <<Token("STRING", text)>>,
                                          "main", "")
                 ELSE LexOutcome(q + 1, <<>>, "delimiter", "")
        ELSE IF curChar = NUL
        THEN LexOutcome(p, <<>>, "error",
                 UnexpectedCharacterError(NUL,
                     "]" \o Repeat("=", delimiterDepth) \o "]"))
        ELSE LexOutcome(p + 1, <<>>, "delimiter", "")

\* a variant whose numeric escape is one digit long
consumeSimpleStringStepOneDigit ==
    LET p == curPos
        c == peek(1)
        escapedChar == TOKENIZER_ESCAPED_CHARACTER_CONVERSIONS(c)
        n == 1
        \* a NUL appended at the end of the input is never read again: the
        \* loop cannot leave the end, so the NULs are not recorded
        grown(s) == IF p >= Len(code) THEN string ELSE string \o s
    IN  IF curChar = quote
        THEN LexOutcome(p + 1, <<Token("STRING", string)>>, "main", "")
        ELSE IF curChar = BACKSLASH
        THEN IF escapedChar # ""
             THEN [LexOutcome(p + 2, <<>>, "string", "") EXCEPT
                      !.string = string \o escapedChar]
             ELSE IF isNumber(c)
             THEN [LexOutcome(p + 1 + n, <<>>, "string", "") EXCEPT
                      !.string = string \o fromCharCode(
                          FoldDigits(SubSeq(code, p + 2, p + 1 + n), 10, 0))]
             ELSE LexOutcome(p + 1, <<>>, "error",
                             "Invalid escape sequence: \\" \o c)
        ELSE [LexOutcome(p + 1, <<>>, "string", "") EXCEPT
                 !.string = grown(curChar)]

\* one test of the loop condition of consumeSimpleString and, when it
\* holds, one iteration of the body
consumeSimpleStringStep ==
    LET p == curPos
        c == peek(1)
        escapedChar == TOKENIZER_ESCAPED_CHARACTER_CONVERSIONS(c)
        n == LET k == RunLength(isNumber, code, p + 2)
             IN  IF k > 3 THEN 3 ELSE k
        \* a NUL appended at the end of the input is never read again: the
        \* loop cannot leave the end, so the NULs are not recorded
        grown(s) == IF p >= Len(code) THEN string ELSE string \o s
    IN  IF curChar = quote
        THEN LexOutcome(p + 1, <<Token("STRING", string)>>, "main", "")
        ELSE IF curChar = BACKSLASH
        THEN IF escapedChar # ""
             THEN [LexOutcome(p + 2, <<>>, "string", "") EXCEPT
                      !.string = string \o escapedChar]
             ELSE IF isNumber(c)
             THEN [LexOutcome(p + 1 + n, <<>>, "string", "") EXCEPT
                      !.string = string \o fromCharCode(
                          FoldDigits(SubSeq(code, p + 2, p + 1 + n), 10, 0))]
             ELSE LexOutcome(p + 1, <<>>, "error",
                             "Invalid escape sequence: \\" \o c)
        ELSE [LexOutcome(p + 1, <<>>, "string", "") EXCEPT
                 !.string = grown(curChar)]

LexApply(r) ==
    /\ curPos' = advanceTo(r.pos)
    /\ tokens' = tokens \o r.push
    /\ lexState' = r.state
    /\ lexError' = r.error
    /\ quote' = r.quote
    /\ string' = r.string
    /\ delimiterDepth' = r.depth
    /\ start' = r.start
    /\ inComment' = r.inComment
    /\ UNCHANGED <<code, parser, compiler, children, nodeError, traversal, returned>>

(***************************************************************************)
(* Parser constants and AST nodes (src/parser/parser.ts,                   *)
(* src/parser/ast-node/ast-node.ts)                                        *)
(***************************************************************************)
\* a table in which ^ and .. have the greater precedence on the right
precedenceWithGreaterRight(op) ==
    CASE op \in {"+", "-"} -> <<6, 6>>
      [] op \in {"*", "/", "%"} -> <<7, 7>>
      [] op = "^" -> <<10, 11>>
      [] op = ".." -> <<5, 6>>
      [] op \in {"==", "~=", "<", ">", "<=", ">="} -> <<3, 3>>
      [] op = "and" -> <<2, 2>>
      [] op = "or" -> <<1, 1>>

\* [left, right] precedence of a binary operator
OPERATOR_PRECEDENCE(op) ==
    CASE op \in {"+", "-"} -> <<6, 6>>
      [] op \in {"*", "/", "%"} -> <<7, 7>>
      [] op = "^" -> <<10, 9>>
      [] op = ".." -> <<5, 4>>
      [] op \in {"==", "~=", "<", ">", "<=", ">="} -> <<3, 3>>
      [] op = "and" -> <<2, 2>>
      [] op = "or" -> <<1, 1>>
BINARY_OPERATORS == {"+", "-", "*", "/", "%", "^", "..", "==", "~=", "<", ">",
                     "<=", ">=", "and", "or"}
UNARY_OPERATORS == {"-", "not", "#"}
UNARY_PRECEDENCE == 8
STOP_KEYWORDS == {"end", "else", "elseif", "until"}

\* what tokens[n] gives outside the array, and a null node
undefined == [type |-> "undefined", value |-> "undefined"]
Null == [type |-> "null"]

Program(nodes) == [type |-> "PROGRAM", children |-> nodes]
Chunk(nodes) == [type |-> "CHUNK", children |-> nodes]
ExpressionList(nodes) == [type |-> "EXPRESSION_LIST", children |-> nodes]
LocalVariable(name) ==
    [type |-> "VARIABLE", variableType |-> "LOCAL", name |-> name]
GlobalVariable(name) ==
    [type |-> "VARIABLE", variableType |-> "GLOBAL", name |-> name]
UpvalueVariable(name) ==
    [type |-> "VARIABLE", variableType |-> "UPVALUE", name |-> name]
NumberLiteral(value) == [type |-> "NUMBER_LITERAL", value |-> value]
StringLiteral(value) == [type |-> "STRING_LITERAL", value |-> value]
ValueLiteral(value) == [type |-> "VALUE_LITERAL", value |-> value]
VarargLiteral == [type |-> "VARARG_LITERAL"]
BinaryOperator(operator, left, right) ==
    [type |-> "BINARY_OPERATOR", operator |-> operator,
     left |-> left, right |-> right]
UnaryOperator(operator, operand) ==
    [type |-> "UNARY_OPERATOR", operator |-> operator, operand |-> operand]
FunctionCall(expression, argumentsList) ==
    [type |-> "FUNCTION_CALL", expression |-> expression,
     argumentsList |-> argumentsList]
AnonymousFunction(parameters, chunk) ==
    [type |-> "ANONYMOUS_FUNCTION", parameters |-> parameters, chunk |-> chunk]
\* expressions is Null where the source has undefined
LocalAssignment(locals, expressions) ==
    [type |-> "LOCAL_ASSIGNMENT", locals |-> locals,
     expressions |-> expressions]
VariableAssignment(lvalues, expressions) ==
    [type |-> "VARIABLE_ASSIGNMENT", lvalues |-> lvalues,
     expressions |-> expressions]
FunctionDeclaration(variable, fields, parameters, chunk, isMethod) ==
    [type |-> "FUNCTION_DECLARATION", variable |-> variable, fields |-> fields,
     parameters |-> parameters, chunk |-> chunk, isMethod |-> isMethod]
LocalFunctionDeclaration(name, parameters, chunk) ==
    [type |-> "LOCAL_FUNCTION_DECLARATION", name |-> name,
     parameters |-> parameters, chunk |-> chunk]
ReturnStatement(expressions) ==
    [type |-> "RETURN_STATEMENT", expressions |-> expressions]
BreakStatement == [type |-> "BREAK_STATEMENT"]
DoStatement(chunk) == [type |-> "DO_STATEMENT", chunk |-> chunk]
WhileStatement(condition, chunk) ==
    [type |-> "WHILE_STATEMENT", condition |-> condition, chunk |-> chunk]
RepeatUntilStatement(chunk, condition) ==
    [type |-> "REPEAT_UNTIL_STATEMENT", chunk |-> chunk,
     condition |-> condition]
NumericForStatement(variable, startExpression, endExpression, step, chunk) ==
    [type |-> "NUMERIC_FOR_STATEMENT", variable |-> variable,
     start |-> startExpression, end |-> endExpression, step |-> step,
     chunk |-> chunk]
GenericForStatement(variables, generator, state, control, chunk) ==
    [type |-> "GENERIC_FOR_STATEMENT", variables |-> variables,
     generator |-> generator, state |-> state, control |-> control,
     chunk |-> chunk]
IfBranch(condition, chunk) ==
    [type |-> "IF_BRANCH", condition |-> condition, chunk |-> chunk]
IfBranchList(nodes) == [type |-> "IF_BRANCH_LIST", children |-> nodes]
IfStatement(branches) == [type |-> "IF_STATEMENT", branches |-> branches]

(***************************************************************************)
(* Parser utilities.  A parser state s holds the fields of the Parser      *)
(* object next to the value the running method returns (node) and the      *)
(* message of the Error it threw (error, "" while none).  The parser       *)
(* methods are operators from the state at their call to the state at      *)
(* their return.  Modelled are the statements local, do, while, return,    *)
(* break, function, call and assignment over expressions built from        *)
(* literals, identifiers, parentheses, calls, anonymous functions and      *)
(* operators; the token streams given to the parser hold no other tokens.  *)
(***************************************************************************)
\* new Parser(tokens)
\* visits is the record of the calls of parseStatement: the position of
\* the cursor and the length of scopeStack at each call
newParser ==
    [position |-> 0, scopeStack |-> <<>>, node |-> Null, error |-> "",
     state |-> "new", call |-> "", visits |-> <<>>]

tokenAt(n) == IF n >= 0 /\ n < Len(tokens) THEN tokens[n + 1] ELSE undefined
curToken(s) == tokenAt(s.position)
parserPeek(s, n) == tokenAt(s.position + n)
parserAdvance(s, n) == [s EXCEPT !.position = @ + n]

fatalError(s, message) == [s EXCEPT !.error = message, !.node = Null]
\* a thrown Error leaves every caller: F continues s only when s has none
Then(s, F(_)) == IF s.error # "" THEN s ELSE F(s)
Return(s, value) == [s EXCEPT !.node = value]

checkToken(token, type, value) == token.type = type /\ token.value = value
expectCurrentTokenType(s, type) ==
    IF curToken(s).type # type
    THEN fatalError(s, "Expected token type '" \o type \o "'")
    ELSE s
expectCurrentToken(s, type, value) ==
    Then(expectCurrentTokenType(s, type), LAMBDA t :
         IF curToken(t).value # value
         THEN fatalError(t, "Expected token value '" \o value \o "'")
         ELSE t)

isUnaryOperator(token) ==
    token.type = "OPERATOR" /\ token.value \in UNARY_OPERATORS
isBinaryOperator(token) ==
    token.type = "OPERATOR" /\ token.value \in BINARY_OPERATORS

\* Scope: isFunctionScope and the names registered in variables
pushScope(s, isFunctionScope) ==
    [s EXCEPT !.scopeStack =
        Append(@, [isFunctionScope |-> isFunctionScope, variables |-> {}])]
popScope(s) ==
    IF s.scopeStack = <<>> THEN fatalError(s, "No scope to pop")
    ELSE [s EXCEPT !.scopeStack = SubSeq(@, 1, Len(@) - 1)]
registerVariables(s, variableNames) ==
    IF variableNames = <<>> THEN s
    ELSE IF s.scopeStack = <<>>
    THEN fatalError(s, "No scope to register variable")
    ELSE [s EXCEPT !.scopeStack[Len(s.scopeStack)].variables =
                       @ \cup Range(variableNames)]

RECURSIVE getVariableTypeFrom(_, _, _, _)
getVariableTypeFrom(scopeStack, i, variableName, isUpvalue) ==
    IF i < 1 THEN "Global"
    ELSE IF variableName \in scopeStack[i].variables
    THEN (IF isUpvalue THEN "Upvalue" ELSE "Local")
    ELSE getVariableTypeFrom(scopeStack, i - 1, variableName,
                             isUpvalue \/ scopeStack[i].isFunctionScope)
\* a walk that takes no notice of function scopes
getVariableTypeWithoutBoundaries(s, variableName) ==
    IF \E i \in 1..Len(s.scopeStack) : variableName \in s.scopeStack[i].variables
    THEN "Local" ELSE "Global"
getVariableType(s, variableName) ==
    getVariableTypeFrom(s.scopeStack, Len(s.scopeStack), variableName, FALSE)

variableNodeOf(variableType, variableName) ==
    IF variableType = "Local" THEN LocalVariable(variableName)
    ELSE IF variableType = "Global" THEN GlobalVariable(variableName)
    ELSE UpvalueVariable(variableName)
parseVariable(s) ==
    Then(expectCurrentTokenType(s, "IDENTIFIER"), LAMBDA t :
         Return(t, variableNodeOf(getVariableType(t, curToken(t).value),
                                  curToken(t).value)))

(***************************************************************************)
(* Expression parsing.  A method that parses an expression returns with    *)
(* the cursor on the last token of the expression.                         *)
(***************************************************************************)
RECURSIVE parseBinary(_, _)
RECURSIVE parseBinaryLoop(_, _)
RECURSIVE parseSuffixes(_)
RECURSIVE parseExpressionListRest(_, _)
RECURSIVE consumeParameters(_, _)
RECURSIVE consumeIdentifiers(_, _)
RECURSIVE consumeFunctionFields(_, _)
RECURSIVE parseAssignment(_, _)
RECURSIVE parseCodeBlock(_, _, _, _)
RECURSIVE parseCodeBlockLoop(_, _)
RECURSIVE parseIfBranches(_, _)
RECURSIVE consumeIteratorVariables(_, _)

parseExpression(s) ==
    Then(parseBinary(s, 0), LAMBDA r :
         IF r.node = Null THEN parserAdvance(r, -1) ELSE r)

parseExpressionWithError(s) ==
    Then(parseExpression(s), LAMBDA r :
         IF r.node = Null THEN fatalError(r, "Expected expression") ELSE r)

\* the loop of consumeParameterList, with the cursor behind "("
consumeParameters(s, parameters) ==
    IF curToken(s) # undefined /\ checkToken(curToken(s), "VARARG", "...")
    THEN Then(expectCurrentToken(parserAdvance(s, 1), "CHARACTER", ")"),
              LAMBDA t : Return(t, Append(parameters, "...")))
    ELSE IF curToken(s) # undefined
    THEN Then(expectCurrentTokenType(s, "IDENTIFIER"), LAMBDA i :
              IF checkToken(parserPeek(i, 1), "CHARACTER", ",")
              THEN consumeParameters(parserAdvance(i, 2),
                                     Append(parameters, curToken(i).value))
              ELSE Then(expectCurrentToken(parserAdvance(i, 1),
                                           "CHARACTER", ")"),
                        LAMBDA t : Return(t, Append(parameters,
                                                    curToken(i).value))))
    ELSE Then(expectCurrentToken(s, "CHARACTER", ")"),
              LAMBDA t : Return(t, parameters))

consumeParameterList(s) ==
    Then(expectCurrentToken(s, "CHARACTER", "("), LAMBDA a :
         IF checkToken(parserPeek(a, 1), "CHARACTER", ")")
         THEN Return(parserAdvance(a, 1), <<>>)
         ELSE consumeParameters(parserAdvance(a, 1), <<>>))

\* function \( <parlist>? \) <chunk> end
parseAnonymousFunction(s) ==
    Then(expectCurrentToken(parserAdvance(s, 1), "CHARACTER", "("), LAMBDA a :
    Then(consumeParameterList(a), LAMBDA p :
    Then(parseCodeBlock(parserAdvance(p, 1), FALSE, TRUE, p.node), LAMBDA c :
    Then(expectCurrentToken(c, "KEYWORD", "end"), LAMBDA t :
         Return(t, AnonymousFunction(p.node, c.node))))))

parseBase(s) ==
    CASE curToken(s).type = "NUMBER" ->
             Return(s, NumberLiteral(curToken(s).value))
      [] curToken(s).type = "STRING" ->
             Return(s, StringLiteral(curToken(s).value))
      [] curToken(s).type = "VARARG" -> Return(s, VarargLiteral)
      [] curToken(s).type = "CONSTANT" ->
             Return(s, ValueLiteral(curToken(s).value))
      [] curToken(s).type = "IDENTIFIER" -> parseVariable(s)
      [] checkToken(curToken(s), "CHARACTER", "(") ->
             Then(parseExpressionWithError(parserAdvance(s, 1)), LAMBDA e :
             Then(expectCurrentToken(parserAdvance(e, 1), "CHARACTER", ")"),
                  LAMBDA t : Return(t, e.node)))
      [] checkToken(curToken(s), "KEYWORD", "function") ->
             parseAnonymousFunction(s)
      [] OTHER -> Return(s, Null)

parseExpressionListRest(s, expressions) ==
    IF checkToken(parserPeek(s, 1), "CHARACTER", ",")
    THEN Then(parseExpressionWithError(parserAdvance(s, 2)), LAMBDA e :
              parseExpressionListRest(e, Append(expressions, e.node)))
    ELSE Return(s, ExpressionList(expressions))

parseExpressionList(s, atLeastOne) ==
    Then(parseExpression(s), LAMBDA f :
         IF f.node # Null THEN parseExpressionListRest(f, <<f.node>>)
         ELSE IF atLeastOne
         THEN fatalError(f, "Expected at least one expression")
         ELSE Return(f, ExpressionList(<<>>)))

parseImplicitFunctionCall(s, primaryExpression) ==
    Then(IF curToken(s).type = "STRING" THEN s
         ELSE expectCurrentToken(s, "CHARACTER", "{"), LAMBDA t :
         Return(t, FunctionCall(primaryExpression,
                       ExpressionList(<<StringLiteral(curToken(t).value)>>))))

parseFunctionCall(s, primaryExpression) ==
    IF curToken(s).type = "STRING"
    THEN parseImplicitFunctionCall(s, primaryExpression)
    ELSE Then(expectCurrentToken(s, "CHARACTER", "("), LAMBDA a :
         Then(parseExpressionList(parserAdvance(a, 1), FALSE), LAMBDA l :
         Then(expectCurrentToken(parserAdvance(l, 1), "CHARACTER", ")"),
              LAMBDA t : Return(t, FunctionCall(primaryExpression, l.node)))))

parseSuffix(s, primaryExpression) ==
    IF checkToken(parserPeek(s, 1), "CHARACTER", "(")
    THEN parseFunctionCall(parserAdvance(s, 1), primaryExpression)
    ELSE IF parserPeek(s, 1).type = "STRING"
    THEN parseImplicitFunctionCall(parserAdvance(s, 1), primaryExpression)
    ELSE Return(s, Null)

\* the loop of parsePrefix; s.node is primaryExpression
parseSuffixes(s) ==
    Then(parseSuffix(s, s.node), LAMBDA x :
         IF x.node = Null THEN Return(x, s.node) ELSE parseSuffixes(x))

parsePrefix(s) ==
    Then(parseBase(s), LAMBDA b :
         IF b.node = Null THEN b ELSE parseSuffixes(b))

\* a variant whose operand is the prefix expression alone
parseUnaryOfPrefix(s) ==
    IF curToken(s) = undefined THEN Return(s, Null)
    ELSE IF ~isUnaryOperator(curToken(s)) THEN parsePrefix(s)
    ELSE Then(parsePrefix(parserAdvance(s, 1)), LAMBDA e :
              IF e.node = Null THEN fatalError(e, "Expected expression")
              ELSE Return(e, UnaryOperator(curToken(s).value, e.node)))

parseUnary(s) ==
    IF curToken(s) = undefined THEN Return(s, Null)
    ELSE IF ~isUnaryOperator(curToken(s)) THEN parsePrefix(s)
    ELSE Then(parseBinary(parserAdvance(s, 1), UNARY_PRECEDENCE), LAMBDA e :
              IF e.node = Null THEN fatalError(e, "Expected expression")
              ELSE Return(e, UnaryOperator(curToken(s).value, e.node)))

\* the loop of parseBinary; s.node is expression
parseBinaryLoop(s, minPrecedence) ==
    IF ~isBinaryOperator(parserPeek(s, 1)) THEN s
    ELSE IF OPERATOR_PRECEDENCE(parserPeek(s, 1).value)[1] < minPrecedence
    THEN s
    ELSE Then(parseBinary(parserAdvance(s, 2),
                          OPERATOR_PRECEDENCE(parserPeek(s, 1).value)[2]),
              LAMBDA r :
              IF r.node = Null THEN fatalError(r, "Expected expression")
              ELSE parseBinaryLoop(
                       Return(r, BinaryOperator(parserPeek(s, 1).value,
                                                s.node, r.node)),
                       minPrecedence))

parseBinary(s, minPrecedence) ==
    Then(parseUnary(s), LAMBDA u :
         IF u.node = Null THEN u ELSE parseBinaryLoop(u, minPrecedence))

(***************************************************************************)
(* Statement parsing.  A keyword parser returns with the cursor on the     *)
(* last token of its statement.                                            *)
(***************************************************************************)
\* the loop of consumeIdentifierList, with the cursor on an identifier
consumeIdentifiers(s, identifiers) ==
    IF checkToken(parserPeek(s, 1), "CHARACTER", ",")
    THEN Then(expectCurrentTokenType(parserAdvance(s, 2), "IDENTIFIER"),
              LAMBDA t : consumeIdentifiers(t, Append(identifiers,
                                                      curToken(t).value)))
    ELSE Return(s, identifiers)

consumeIdentifierList(s) ==
    Then(expectCurrentTokenType(s, "IDENTIFIER"), LAMBDA t :
         consumeIdentifiers(t, <<curToken(t).value>>))

consumeOptionalSemicolon(s) ==
    IF checkToken(parserPeek(s, 1), "CHARACTER", ";")
    THEN parserAdvance(s, 1) ELSE s

\* the tail every function statement shares: the cursor is on "(" 
parseFunctionBody(s, Node(_, _)) ==
    Then(consumeParameterList(s), LAMBDA p :
    Then(parseCodeBlock(parserAdvance(p, 1), FALSE, TRUE, p.node), LAMBDA c :
    Then(expectCurrentToken(c, "KEYWORD", "end"), LAMBDA t :
         Return(t, Node(p.node, c.node)))))

parseLocal(s) ==
    IF checkToken(parserPeek(s, 1), "KEYWORD", "function")
    THEN Then(expectCurrentTokenType(parserAdvance(s, 2), "IDENTIFIER"),
              LAMBDA n :
              parseFunctionBody(parserAdvance(n, 1), LAMBDA ps, ch :
                  LocalFunctionDeclaration(curToken(n).value, ps, ch)))
    ELSE Then(consumeIdentifierList(parserAdvance(s, 1)), LAMBDA l :
         IF checkToken(parserPeek(l, 1), "CHARACTER", "=")
         THEN Then(parseExpressionList(parserAdvance(l, 2), TRUE), LAMBDA e :
                   Return(registerVariables(e, l.node),
                          LocalAssignment(l.node, e.node)))
         ELSE Return(registerVariables(l, l.node),
                     LocalAssignment(l.node, Null)))

parseWhile(s) ==
    Then(parseExpressionWithError(parserAdvance(s, 1)), LAMBDA e :
    Then(expectCurrentToken(parserAdvance(e, 1), "KEYWORD", "do"), LAMBDA d :
    Then(parseCodeBlock(parserAdvance(d, 1), FALSE, FALSE, <<>>), LAMBDA c :
    Then(expectCurrentToken(c, "KEYWORD", "end"), LAMBDA t :
         Return(t, WhileStatement(e.node, c.node))))))

\* the while loop of parseIf, with the cursor behind the last block
parseIfBranches(s, branches) ==
    IF curToken(s).type # "KEYWORD" THEN Return(s, branches)
    ELSE IF curToken(s).value = "elseif"
    THEN Then(parseExpressionWithError(parserAdvance(s, 1)), LAMBDA e :
         Then(expectCurrentToken(parserAdvance(e, 1), "KEYWORD", "then"),
              LAMBDA t :
         Then(parseCodeBlock(parserAdvance(t, 1), FALSE, FALSE, <<>>),
              LAMBDA c :
              parseIfBranches(c, Append(branches,
                                        IfBranch(e.node, c.node))))))
    ELSE IF curToken(s).value = "else"
    THEN Then(parseCodeBlock(parserAdvance(s, 1), FALSE, FALSE, <<>>),
              LAMBDA c : Return(c, Append(branches, IfBranch(Null, c.node))))
    ELSE Return(s, branches)

parseIf(s) ==
    Then(parseExpressionWithError(parserAdvance(s, 1)), LAMBDA e :
    Then(expectCurrentToken(parserAdvance(e, 1), "KEYWORD", "then"), LAMBDA t :
    Then(parseCodeBlock(parserAdvance(t, 1), FALSE, FALSE, <<>>), LAMBDA c :
    Then(parseIfBranches(c, <<IfBranch(e.node, c.node)>>), LAMBDA b :
    Then(expectCurrentToken(b, "KEYWORD", "end"), LAMBDA x :
         Return(x, IfStatement(IfBranchList(b.node))))))))

parseDo(s) ==
    Then(parseCodeBlock(parserAdvance(s, 1), FALSE, FALSE, <<>>), LAMBDA c :
    Then(expectCurrentToken(c, "KEYWORD", "end"), LAMBDA t :
         Return(t, DoStatement(c.node))))

parseReturn(s) ==
    Then(parseExpressionList(parserAdvance(s, 1), FALSE), LAMBDA e :
         Return(e, ReturnStatement(e.node)))

\* the tail both for statements share: the cursor is on "do"
parseForBody(s, Node(_)) ==
    Then(expectCurrentToken(s, "KEYWORD", "do"), LAMBDA d :
    Then(parseCodeBlock(parserAdvance(d, 1), FALSE, FALSE, <<>>), LAMBDA c :
    Then(expectCurrentToken(c, "KEYWORD", "end"), LAMBDA t :
         Return(t, Node(c.node)))))

\* the numeric branch of parseFor, with the cursor on the start expression
parseNumericFor(s, variable) ==
    Then(parseExpressionWithError(s), LAMBDA a :
    Then(expectCurrentToken(parserAdvance(a, 1), "CHARACTER", ","), LAMBDA c :
    Then(parseExpressionWithError(parserAdvance(c, 1)), LAMBDA b :
         IF checkToken(parserPeek(b, 1), "CHARACTER", ",")
         THEN Then(parseExpressionWithError(parserAdvance(b, 2)), LAMBDA st :
                   parseForBody(parserAdvance(st, 1), LAMBDA ch :
                       NumericForStatement(variable, a.node, b.node, st.node,
                                           ch)))
         ELSE parseForBody(parserAdvance(b, 1), LAMBDA ch :
                  NumericForStatement(variable, a.node, b.node, Null, ch)))))

\* the <iterVariableList>* loop of parseFor, with the cursor behind a
\* variable
consumeIteratorVariables(s, variables) ==
    IF checkToken(curToken(s), "KEYWORD", "in") THEN Return(s, variables)
    ELSE Then(expectCurrentToken(s, "CHARACTER", ","), LAMBDA c :
         Then(expectCurrentTokenType(parserAdvance(c, 1), "IDENTIFIER"),
              LAMBDA i :
              consumeIteratorVariables(parserAdvance(i, 1),
                  Append(variables, curToken(i).value))))

\* expressionList.children[index], undefined behind the last child
childAt(list, index) ==
    IF index < Len(list.children) THEN list.children[index + 1] ELSE undefined

\* the generic branch of parseFor
parseGenericFor(s, firstIteratorVariable) ==
    Then(consumeIteratorVariables(s, <<firstIteratorVariable>>), LAMBDA v :
    Then(parseExpressionList(parserAdvance(v, 1), TRUE), LAMBDA l :
         parseForBody(parserAdvance(l, 1), LAMBDA ch :
             GenericForStatement(v.node, childAt(l.node, 0),
                                 childAt(l.node, 1), childAt(l.node, 2),
                                 ch))))

parseFor(s) ==
    Then(expectCurrentTokenType(parserAdvance(s, 1), "IDENTIFIER"), LAMBDA v :
         IF checkToken(parserPeek(v, 1), "CHARACTER", "=")
         THEN parseNumericFor(parserAdvance(v, 2), curToken(v).value)
         ELSE parseGenericFor(parserAdvance(v, 1), curToken(v).value))

parseBreak(s) == Return(s, BreakStatement)

parseRepeat(s) ==
    Then(parseCodeBlock(parserAdvance(s, 1), FALSE, FALSE, <<>>), LAMBDA c :
    Then(expectCurrentToken(c, "KEYWORD", "until"), LAMBDA u :
    Then(parseExpressionWithError(parserAdvance(u, 1)), LAMBDA e :
         Return(e, RepeatUntilStatement(c.node, e.node)))))

\* the [. <funcField>]* loop of parseFunction
consumeFunctionFields(s, fields) ==
    IF checkToken(curToken(s), "CHARACTER", ".")
    THEN Then(expectCurrentTokenType(parserAdvance(s, 1), "IDENTIFIER"),
              LAMBDA t : consumeFunctionFields(parserAdvance(t, 1),
                             Append(fields, curToken(t).value)))
    ELSE Return(s, fields)

parseFunction(s) ==
    Then(parseVariable(parserAdvance(s, 1)), LAMBDA v :
    Then(consumeFunctionFields(parserAdvance(v, 1), <<>>), LAMBDA f :
         IF checkToken(curToken(f), "CHARACTER", ":")
         THEN Then(expectCurrentTokenType(parserAdvance(f, 1), "IDENTIFIER"),
                   LAMBDA m :
              Then(expectCurrentToken(parserAdvance(m, 1), "CHARACTER", "("),
                   LAMBDA a : parseFunctionBody(a, LAMBDA ps, ch :
                       FunctionDeclaration(v.node,
                           Append(f.node, curToken(m).value), ps, ch, TRUE))))
         ELSE Then(expectCurrentToken(f, "CHARACTER", "("), LAMBDA a :
                   parseFunctionBody(a, LAMBDA ps, ch :
                       FunctionDeclaration(v.node, f.node, ps, ch, FALSE)))))

\* the cursor is on the token behind the last lvalue
parseAssignment(s, lvalues) ==
    IF checkToken(curToken(s), "CHARACTER", ",")
    THEN Then(parsePrefix(parserAdvance(s, 1)), LAMBDA n :
              IF n.node = Null THEN fatalError(n, "Expected lvalue")
              ELSE parseAssignment(parserAdvance(n, 1),
                                   Append(lvalues, n.node)))
    ELSE Then(expectCurrentToken(s, "CHARACTER", "="), LAMBDA q :
         Then(parseExpressionList(parserAdvance(q, 1), TRUE), LAMBDA r :
              Return(r, VariableAssignment(lvalues, r.node))))

parseExprstat(s) ==
    Then(parsePrefix(s), LAMBDA e :
         IF e.node = Null THEN fatalError(e, "Expected expression")
         ELSE IF e.node.type = "FUNCTION_CALL" THEN e
         ELSE parseAssignment(parserAdvance(e, 1), <<e.node>>))

\* keywordParsingMap[tokenValue]() for the modelled keywords
keywordParser(s) ==
    CASE curToken(s).value = "local" -> parseLocal(s)
      [] curToken(s).value = "while" -> parseWhile(s)
      [] curToken(s).value = "if" -> parseIf(s)
      [] curToken(s).value = "do" -> parseDo(s)
      [] curToken(s).value = "for" -> parseFor(s)
      [] curToken(s).value = "repeat" -> parseRepeat(s)
      [] curToken(s).value = "return" -> parseReturn(s)
      [] curToken(s).value = "break" -> parseBreak(s)
      [] curToken(s).value = "function" -> parseFunction(s)
      [] OTHER -> fatalError(s, "Unknown keyword '" \o curToken(s).value \o "'")

parseStatement(s) ==
    IF curToken(s).type = "KEYWORD" /\ curToken(s).value \in STOP_KEYWORDS
    THEN Return(s, Null)
    ELSE Then(IF curToken(s).type = "KEYWORD" THEN keywordParser(s)
              ELSE parseExprstat(s),
              consumeOptionalSemicolon)

\* parseStatement is entered: the call is put on record
visit(s) ==
    [s EXCEPT !.visits = Append(@, <<s.position, Len(s.scopeStack)>>)]

\* the while (this.curToken) loop of parseCodeBlock
parseCodeBlockLoop(s, statements) ==
    IF curToken(s) = undefined THEN Return(s, statements)
    ELSE Then(parseStatement(visit(s)), LAMBDA st :
              IF st.node = Null THEN Return(st, statements)
              ELSE parseCodeBlockLoop(parserAdvance(st, 1),
                                      Append(statements, st.node)))

\* a variant that leaves its scope on the stack
parseCodeBlockWithoutPop(s, isRoot, isFunctionScope, scopeVariables) ==
    Then(registerVariables(pushScope(s, isFunctionScope), scopeVariables),
         LAMBDA b :
    Then(parseCodeBlockLoop(b, <<>>), LAMBDA l :
         Return(l, IF isRoot THEN Program(l.node) ELSE Chunk(l.node))))

parseCodeBlock(s, isRoot, isFunctionScope, scopeVariables) ==
    Then(registerVariables(pushScope(s, isFunctionScope), scopeVariables),
         LAMBDA b :
    Then(parseCodeBlockLoop(b, <<>>), LAMBDA l :
         Return(popScope(l), IF isRoot THEN Program(l.node)
                             ELSE Chunk(l.node))))

\* a parse that returns whatever the top-level block stopped at
parseWithoutEndCheck(s) == parseCodeBlock(s, TRUE, FALSE, <<>>)
parse(s) ==
    Then(parseCodeBlock(s, TRUE, FALSE, <<>>), LAMBDA c :
         IF curToken(c) # undefined THEN fatalError(c, "Expected end of file")
         ELSE c)

(***************************************************************************)
(* Token streams for the parser: expressions of up to three operands, and  *)
(* programs put together from a few simple statements, the compound        *)
(* statements around blocks of them, and one more level of nesting; next   *)
(* to them the streams that are a statement, simple or compound around at  *)
(* most one statement, with one token removed or a stop keyword inserted.  *)
(***************************************************************************)
Kw(value) == Token("KEYWORD", value)
Id(value) == Token("IDENTIFIER", value)
Num(value) == Token("NUMBER", value)
Ch(value) == Token("CHARACTER", value)
Op(value) == Token("OPERATOR", value)

MaxBlockStatements == 2

RECURSIVE Flatten(_)
Flatten(ss) == IF ss = <<>> THEN <<>> ELSE Head(ss) \o Flatten(Tail(ss))

UnaryPrefixes == {<<>>, <<Op("-")>>}

ExpressionInputs ==
    {<<Id("a")>>, <<Num("1")>>}
    \cup {u1 \o <<Id("a"), Op(p)>> \o u2 \o <<Id("b")>> :
              u1 \in UnaryPrefixes, u2 \in UnaryPrefixes,
              p \in BINARY_OPERATORS}
    \cup {u1 \o <<Id("a"), Op(p)>> \o u2 \o <<Id("b"), Op(q)>> \o u3
              \o <<Id("c")>> :
              u1 \in UnaryPrefixes, u2 \in UnaryPrefixes,
              u3 \in UnaryPrefixes,
              p \in BINARY_OPERATORS, q \in BINARY_OPERATORS}

\* a unary operator on the left and on the right operand of a binary one
UnaryInputs ==
    {<<Op(u), Id("a"), Op(q), Id("b")>> :
         u \in UNARY_OPERATORS, q \in BINARY_OPERATORS}
    \cup {<<Id("a"), Op(q), Op(u), Id("b")>> :
              u \in UNARY_OPERATORS, q \in BINARY_OPERATORS}

SimpleStatements ==
    {<<Kw("local"), Id("a")>>,
     <<Kw("local"), Id("b"), Ch("="), Id("a")>>,
     <<Kw("return"), Id("a")>>,
     <<Kw("return"), Id("b")>>,
     <<Id("a"), Ch("="), Id("b")>>,
     <<Id("f"), Ch("("), Id("a"), Ch(")")>>}

BlocksOf(statements) ==
    {Flatten(ss) : ss \in SeqsUpTo(statements, MaxBlockStatements)}

\* the compound statements around the block b
CompoundsOf(b) ==
    {<<Kw("do")>> \o b \o <<Kw("end")>>,
     <<Kw("while"), Id("a"), Kw("do")>> \o b \o <<Kw("end")>>,
     <<Kw("function"), Id("f"), Ch("("), Ch(")")>> \o b \o <<Kw("end")>>,
     <<Kw("function"), Id("f"), Ch("("), Id("a"), Ch(")")>> \o b
         \o <<Kw("end")>>,
     <<Kw("local"), Id("f"), Ch("="), Kw("function"), Ch("("), Id("b"),
       Ch(")")>> \o b \o <<Kw("end")>>}

CompoundStatements == UNION {CompoundsOf(b) : b \in BlocksOf(SimpleStatements)}

Prefixes ==
    {<<>>, <<Kw("local"), Id("a")>>,
     <<Kw("local"), Id("a"), Ch("="), Num("1"), Ch(";")>>}

Programs ==
    {<<>>} \cup SimpleStatements
    \cup {pre \o s : pre \in Prefixes, s \in CompoundStatements}
    \cup {s \o r : s \in CompoundStatements,
                   r \in {<<Kw("return"), Id("a")>>, <<Kw("return"), Id("b")>>}}
    \cup {pre \o w : pre \in Prefixes,
                     w \in UNION {{<<Kw("do")>> \o s \o <<Kw("end")>>,
                                   <<Kw("function"), Id("f"), Ch("("), Ch(")")>>
                                       \o s \o <<Kw("end")>>} :
                                  s \in CompoundStatements}}

\* s with its i-th token removed, and s with the token t put before it
RemoveAt(s, i) == SubSeq(s, 1, i - 1) \o SubSeq(s, i + 1, Len(s))
InsertAt(s, i, t) == SubSeq(s, 1, i - 1) \o <<t>> \o SubSeq(s, i, Len(s))

BrokenPrograms ==
    UNION {{RemoveAt(s, i) : i \in 1..Len(s)}
           \cup {InsertAt(s, i, Kw(k)) : i \in 1..(Len(s) + 1),
                                          k \in {"end", "else"}} :
           s \in SimpleStatements
                   \cup UNION {CompoundsOf(b) :
                                  b \in SimpleStatements \cup {<<>>}}}

\* the if, for and repeat statements, the method and the local function
\* around the block b
BranchingsOf(b) ==
    {<<Kw("if"), Id("a"), Kw("then")>> \o b \o <<Kw("end")>>,
     <<Kw("if"), Id("a"), Kw("then")>> \o b \o <<Kw("else")>> \o b
         \o <<Kw("end")>>,
     <<Kw("if"), Id("a"), Kw("then")>> \o b
         \o <<Kw("elseif"), Id("c"), Kw("then")>> \o b \o <<Kw("end")>>,
     <<Kw("for"), Id("a"), Ch("="), Num("1"), Ch(","), Num("2"), Kw("do")>>
         \o b \o <<Kw("end")>>,
     <<Kw("for"), Id("b"), Ch("="), Num("1"), Ch(","), Num("2"), Ch(","),
       Num("1"), Kw("do")>> \o b \o <<Kw("end")>>,
     <<Kw("for"), Id("a"), Ch(","), Id("b"), Kw("in"), Id("f"), Kw("do")>>
         \o b \o <<Kw("end")>>,
     <<Kw("repeat")>> \o b \o <<Kw("until"), Id("c")>>,
     <<Kw("function"), Id("t"), Ch(":"), Id("m"), Ch("("), Ch(")")>> \o b
         \o <<Kw("end")>>,
     <<Kw("local"), Kw("function"), Id("f"), Ch("("), Id("a"), Ch(")")>>
         \o b \o <<Kw("end")>>}

BranchingStatements ==
    UNION {BranchingsOf(b) : b \in BlocksOf(SimpleStatements)}

FunctionOf(b) == <<Kw("function"), Ch("("), Ch(")")>> \o b \o <<Kw("end")>>
ReturnOf(e) == <<Kw("return")>> \o e

\* a method, and a function that is no method, that read self; loops whose
\* body reads the loop variable in a nested function; a local function
\* whose body reads its name
MethodExamples ==
    {<<Kw("function"), Id("t"), Ch(":"), Id("m"), Ch("("), Ch(")")>>
         \o b \o <<Kw("end")>> :
         b \in {ReturnOf(<<Id("self")>>),
                ReturnOf(FunctionOf(ReturnOf(<<Id("self")>>))),
                <<Kw("local"), Id("b"), Ch("="), Id("self")>>}}
    \cup {<<Kw("function"), Id("t"), Ch("."), Id("m"), Ch("("), Ch(")"),
            Kw("return"), Id("self"), Kw("end")>>,
          <<Kw("function"), Id("t"), Ch(":"), Id("m"), Ch("("), Id("a"),
            Ch(")"), Kw("return"), Id("self"), Kw("end")>>}

LoopExamples ==
    {<<Kw("for"), Id("a"), Ch("="), Num("1"), Ch(","), Num("2"), Kw("do")>>
         \o ReturnOf(FunctionOf(ReturnOf(<<Id("a")>>))) \o <<Kw("end")>>,
     <<Kw("for"), Id("a"), Ch(","), Id("b"), Kw("in"), Id("f"), Kw("do")>>
         \o ReturnOf(FunctionOf(ReturnOf(<<Id("b")>>))) \o <<Kw("end")>>,
     <<Kw("for"), Id("b"), Kw("in"), Id("f"), Ch(","), Id("a"), Ch(","),
       Id("c"), Kw("do")>> \o ReturnOf(<<Id("b")>>) \o <<Kw("end")>>}

LocalFunctionExamples ==
    {<<Kw("local"), Kw("function"), Id("f"), Ch("("), Ch(")")>>
         \o ReturnOf(<<Id("f")>>) \o <<Kw("end")>>,
     <<Kw("local"), Kw("function"), Id("f"), Ch("("), Ch(")")>>
         \o ReturnOf(<<Id("f")>>) \o <<Kw("end")>> \o ReturnOf(<<Id("f")>>),
     <<Kw("local"), Kw("function"), Id("f"), Ch("("), Ch(")"), Kw("end")>>
         \o <<Kw("local"), Id("b"), Ch("="), Id("f")>>}

Returns == {ReturnOf(<<Id("a")>>), ReturnOf(<<Id("b")>>)}

\* a statement in front of a return, and behind a local statement
FollowedPrograms ==
    {s \o r : s \in BranchingStatements \cup CompoundStatements, r \in Returns}

BranchingPrograms ==
    BranchingStatements \cup MethodExamples \cup LoopExamples
    \cup LocalFunctionExamples
    \cup FollowedPrograms
    \cup {pre \o s : pre \in Prefixes, s \in BranchingStatements}
    \cup {<<Kw("do")>> \o s \o <<Kw("end")>> :
              s \in UNION {BranchingsOf(b) :
                               b \in SimpleStatements \cup {<<>>}}}

\* assignments whose target is a literal or a call: 1 = 2, a, 1 = 2 and
\* a, f() = 1
TargetExamples ==
    {<<Num("1"), Ch("="), Num("2")>>,
     <<Id("a"), Ch(","), Num("1"), Ch("="), Num("2")>>,
     <<Id("a"), Ch(","), Id("f"), Ch("("), Ch(")"), Ch("="), Num("1")>>}

ParseInputs ==
    ExpressionInputs \cup UnaryInputs \cup Programs \cup BrokenPrograms
    \cup BranchingPrograms \cup TargetExamples

(***************************************************************************)
(* Compiler.  A compiler state c holds the fields of the Compiler and of   *)
(* its LuaPrototype (code, constants, maxStackSize).  work is what the     *)
(* running compile() still has to do: the statements of the chunks being   *)
(* compiled, each chunk followed by the popScope() that ends it.  A thrown *)
(* Error is kept in error.                                                 *)
(***************************************************************************)
LUA_TNUMBER == "number"
LUA_TSTRING == "string"
LuaConstant(type, value) == [type |-> type, value |-> value]
\* locals maps names to registers; it is kept as the list of its entries in
\* the order Object.keys gives them
LuaScope(isFunctionScope) ==
    [isFunctionScope |-> isFunctionScope, locals |-> <<>>]
IROperand(type, value) == [type |-> type, value |-> value]
IRInstruction(opcode, operands) == [opcode |-> opcode, operands |-> operands]

newCompiler ==
    [nextRegister |-> -1, numVars |-> 0, scopeStack |-> <<>>,
     code |-> <<>>, constants |-> <<>>, maxStackSize |-> 2,
     work |-> <<>>, state |-> "new", error |-> ""]

throw(c, message) == [c EXCEPT !.error = message]

\* the register it returns is nextRegister of the state it returns
\* a variant that leaves maxStackSize alone
allocateRegisterWithoutMaximum(c) == [c EXCEPT !.nextRegister = @ + 1]

allocateRegister(c) ==
    [c EXCEPT !.nextRegister = @ + 1,
              !.maxStackSize = IF @ < c.nextRegister + 1
                               THEN c.nextRegister + 1 ELSE @]
freeRegister(c) == [c EXCEPT !.nextRegister = @ - 1]

currentScope(c) == c.scopeStack[Len(c.scopeStack)]
\* locals is an object literal: a lookup that finds no entry goes on to
\* Object.prototype, whose properties are functions (and, for __proto__,
\* the prototype itself)
OBJECT_PROTOTYPE_KEYS ==
    {"constructor", "toString", "toLocaleString", "valueOf", "hasOwnProperty",
     "isPrototypeOf", "propertyIsEnumerable", "__proto__"}
InheritedValue == "[Function]"

\* locals[name] !== undefined
hasLocal(scope, name) ==
    \/ \E i \in 1..Len(scope.locals) : scope.locals[i].name = name
    \/ name \in OBJECT_PROTOTYPE_KEYS
localIndex(scope, name) ==
    CHOOSE i \in 1..Len(scope.locals) : scope.locals[i].name = name
localKeys(scope) == [i \in 1..Len(scope.locals) |-> scope.locals[i].name]

compilerRegisterVariable(c, name) ==
    IF c.scopeStack = <<>>
    THEN throw(c, "No scope to register variable in")
    ELSE IF hasLocal(currentScope(c), name)
    THEN throw(c, "Variable '" \o name \o "' already declared in this scope")
    ELSE [allocateRegister(c) EXCEPT
              !.numVars = @ + 1,
              !.scopeStack[Len(c.scopeStack)].locals =
                  Append(@, [name |-> name, register |-> c.nextRegister + 1])]

RECURSIVE compilerRegisterVariables(_, _)
compilerRegisterVariables(c, names) ==
    IF names = <<>> THEN c
    ELSE Then(compilerRegisterVariable(c, Head(names)),
              LAMBDA r : compilerRegisterVariables(r, Tail(names)))

unregisterVariable(c, name) ==
    IF c.scopeStack = <<>>
    THEN throw(c, "No scope to unregister variable in")
    ELSE IF ~hasLocal(currentScope(c), name)
    THEN throw(c, "Variable '" \o name \o "' not declared in this scope")
    ELSE IF c.numVars = 0
    THEN throw(c, "No variables to unregister")
    ELSE freeRegister(
             [c EXCEPT !.numVars = @ - 1,
                       !.scopeStack[Len(c.scopeStack)]
                          .locals[localIndex(currentScope(c), name)]
                          .register = -1])

RECURSIVE unregisterVariables(_, _)
unregisterVariables(c, names) ==
    IF names = <<>> THEN c
    ELSE Then(unregisterVariable(c, Head(names)),
              LAMBDA r : unregisterVariables(r, Tail(names)))

compilerPushScope(c, isFunctionScope) ==
    [c EXCEPT !.scopeStack = Append(@, LuaScope(isFunctionScope))]

\* a variant that unregisters the locals and leaves the scope on the stack
compilerPopScopeKeepingScope(c) ==
    IF c.scopeStack = <<>>
    THEN throw(c, "No scope to pop")
    ELSE unregisterVariables(c, localKeys(currentScope(c)))

compilerPopScope(c) ==
    IF c.scopeStack = <<>>
    THEN throw(c, "No scope to pop")
    ELSE Then(unregisterVariables(c, localKeys(currentScope(c))),
              LAMBDA r : [r EXCEPT !.scopeStack =
                              SubSeq(@, 1, Len(@) - 1)])

checkScopeStack(c) ==
    IF Len(c.scopeStack) > 0 THEN throw(c, "Scope stack not empty") ELSE c

emit(c, opcode, operands) ==
    [c EXCEPT !.code = Append(@, IRInstruction(opcode, operands))]

\* the indices, from 0, of the constants equal to the given one
constantMatches(constants, constantType, constantValue) ==
    {i \in 0..(Len(constants) - 1) :
        /\ constants[i + 1].type = constantType
        /\ constants[i + 1].value = constantValue}

Least(S) == CHOOSE i \in S : \A j \in S : i <= j

\* a variant that never looks for an existing constant
emitConstantAlwaysAppending(c, constantType, constantValue) ==
    [state |-> [c EXCEPT !.constants =
                    Append(@, LuaConstant(constantType, constantValue))],
     index |-> Len(c.constants)]

\* the state and the index emitConstant returns
emitConstant(c, constantType, constantValue) ==
    IF constantMatches(c.constants, constantType, constantValue) # {}
    THEN [state |-> c,
          index |-> Least(constantMatches(c.constants, constantType,
                                          constantValue))]
    ELSE [state |-> [c EXCEPT !.constants =
                         Append(@, LuaConstant(constantType, constantValue))],
          index |-> Len(c.constants)]

loadConstant(e, opcode, targetRegister) ==
    emit(e.state, opcode, <<IROperand("Register", targetRegister),
                            IROperand("Constant", e.index)>>)

compileConstantNode(c, node, targetRegister) ==
    IF node.type = "NUMBER_LITERAL"
    THEN loadConstant(emitConstant(c, LUA_TNUMBER, node.value),
                      "LOADK", targetRegister)
    ELSE IF node.type = "STRING_LITERAL"
    THEN loadConstant(emitConstant(c, LUA_TSTRING, node.value),
                      "LOADK", targetRegister)
    ELSE throw(c, "Unsupported constant node type: " \o node.type)

\* the scopes from the current one outwards that hold the name
scopesHolding(c, variableName) ==
    {i \in 1..Len(c.scopeStack) : hasLocal(c.scopeStack[i], variableName)}

Greatest(S) == CHOOSE i \in S : \A j \in S : i >= j

\* locals[variableName]
registerIn(scope, variableName) ==
    IF \E i \in 1..Len(scope.locals) : scope.locals[i].name = variableName
    THEN scope.locals[localIndex(scope, variableName)].register
    ELSE InheritedValue

compileVariableNode(c, node, targetRegister) ==
    IF scopesHolding(c, node.name) # {}
    THEN emit(c, "MOVE",
              <<IROperand("Register", targetRegister),
                IROperand("Register",
                    registerIn(c.scopeStack[Greatest(scopesHolding(c,
                                                               node.name))],
                               node.name))>>)
    ELSE loadConstant(emitConstant(c, LUA_TSTRING, node.name),
                      "GETGLOBAL", targetRegister)

compileExpressionNode(c, node, targetRegister) ==
    IF node.type \in {"NUMBER_LITERAL", "STRING_LITERAL"}
    THEN compileConstantNode(c, node, targetRegister)
    ELSE IF node.type = "VARIABLE"
    THEN compileVariableNode(c, node, targetRegister)
    ELSE throw(c, "Unsupported expression node type: " \o node.type)

\* the loop of compileLocalAssignment from the expression at index on
RECURSIVE compileLocalExpressions(_, _, _, _)
compileLocalExpressions(c, locals, expressions, index) ==
    IF index > Len(expressions) THEN c
    ELSE Then(IF index <= Len(locals)
              THEN compilerRegisterVariable(c, locals[index])
              ELSE allocateRegister(c), LAMBDA a :
         Then(compileExpressionNode(a, expressions[index], a.nextRegister),
              LAMBDA e :
              compileLocalExpressions(
                  IF index <= Len(locals) THEN e ELSE freeRegister(e),
                  locals, expressions, index + 1)))

compileLocalAssignment(c, node) ==
    IF node.expressions # Null
    THEN compileLocalExpressions(c, node.locals,
                                 node.expressions.children, 1)
    ELSE compilerRegisterVariables(c, node.locals)

StatementItem(node) == [kind |-> "statement", node |-> node]
PopScopeItem == [kind |-> "popScope", node |-> Null]

\* compileChunk up to its loop: the statements and the closing popScope()
\* are put in front of the work
compileChunk(c, node, isFunctionScope, variables) ==
    Then(compilerRegisterVariables(compilerPushScope(c, isFunctionScope),
                                   variables), LAMBDA r :
         [r EXCEPT !.work =
              [i \in 1..Len(node.children) |->
                  StatementItem(node.children[i])]
              \o <<PopScopeItem>> \o @])

compileDoStatement(c, node) == compileChunk(c, node.chunk, FALSE, <<>>)

compileStatementNode(c, node) ==
    IF node.type = "DO_STATEMENT" THEN compileDoStatement(c, node)
    ELSE IF node.type = "LOCAL_ASSIGNMENT"
    THEN compileLocalAssignment(c, node)
    ELSE throw(c, "Unsupported statement node type: " \o node.type)

(***************************************************************************)
(* List nodes.  The nodes are objects, told apart by their identity: a     *)
(* number stands for each, and children maps each list node to its array   *)
(* of children.  A thrown Error is kept in error.                          *)
(***************************************************************************)
MaxNodes == 3
Nodes == 1..MaxNodes

\* Array.prototype.indexOf: the first index, from 0, or -1
indexOf(array, node) ==
    IF node \in Range(array)
    THEN Least({i \in 1..Len(array) : array[i] = node}) - 1
    ELSE -1

\* Array.prototype.splice(index, 1)
splice(array, index) ==
    SubSeq(array, 1, index) \o SubSeq(array, index + 2, Len(array))

NodeResult(ch, error) == [children |-> ch, error |-> error]

addChild(ch, this, node) ==
    NodeResult([ch EXCEPT ![this] = Append(@, node)], "")

addChildren(ch, this, nodes) ==
    NodeResult([ch EXCEPT ![this] = @ \o nodes], "")

\* a variant without the test of the index: splice(-1, 1) takes the last
\* child away
removeChildWithoutTest(ch, this, node) ==
    IF indexOf(ch[this], node) = -1
    THEN NodeResult([ch EXCEPT ![this] = SubSeq(@, 1, Len(@) - 1)], "")
    ELSE NodeResult([ch EXCEPT ![this] = splice(@, indexOf(@, node))], "")

removeChild(ch, this, node) ==
    IF indexOf(ch[this], node) = -1
    THEN NodeResult(ch, "Node not found")
    ELSE NodeResult([ch EXCEPT ![this] = splice(@, indexOf(@, node))], "")

RECURSIVE removeChildren(_, _, _)
removeChildren(ch, this, nodes) ==
    IF nodes = <<>> THEN NodeResult(ch, "")
    ELSE Then(removeChild(ch, this, Head(nodes)),
              LAMBDA r : removeChildren(r.children, this, Tail(nodes)))

(***************************************************************************)
(* Traversal of a tree of the parser (ASTNode.traverse).  A condition is    *)
(* given by the kinds of node it accepts; the callback appends the node it *)
(* is given to the list that traverse returns here.                        *)
(***************************************************************************)
newTraversal == [state |-> "new", condition |-> {}, visited |-> <<>>]

\* NODE_SCHEMA[type] for the kinds of node the parser model builds
NODE_SCHEMA(type) ==
    CASE type = "BINARY_OPERATOR" -> <<"left", "right">>
      [] type = "UNARY_OPERATOR" -> <<"operand">>
      [] type = "FUNCTION_CALL" -> <<"expression", "arguments">>
      [] type = "ANONYMOUS_FUNCTION" -> <<"chunk">>
      [] type = "LOCAL_ASSIGNMENT" -> <<"expressions">>
      [] type = "VARIABLE_ASSIGNMENT" -> <<"expressions">>
      [] type = "FUNCTION_DECLARATION" -> <<"chunk">>
      [] type = "LOCAL_FUNCTION_DECLARATION" -> <<"chunk">>
      [] type = "RETURN_STATEMENT" -> <<"expressions">>
      [] type = "DO_STATEMENT" -> <<"chunk">>
      [] type = "WHILE_STATEMENT" -> <<"condition", "chunk">>
      [] type = "REPEAT_UNTIL_STATEMENT" -> <<"condition", "chunk">>
      [] type = "NUMERIC_FOR_STATEMENT" -> <<"start", "end", "step", "chunk">>
      [] type = "GENERIC_FOR_STATEMENT" ->
             <<"generator", "state", "control", "chunk">>
      [] type = "IF_BRANCH" -> <<"condition", "chunk">>
      [] type = "IF_STATEMENT" -> <<"branches">>
      [] OTHER -> <<>>

\* node instanceof ASTNodeList
isASTNodeList(node) ==
    node.type \in {"PROGRAM", "CHUNK", "EXPRESSION_LIST", "IF_BRANCH_LIST"}

\* this[field] instanceof ASTNode: the field is there and holds a node; the
\* fields the schema names hold a node, null or undefined
holdsNode(node, field) ==
    field \in DOMAIN node /\ node[field] \notin {Null, undefined}

\* the nodes the loop of traverse goes through: the children of a list node,
\* or what the schema fields of another node hold
traversed(node) ==
    IF isASTNodeList(node) THEN node.children
    ELSE [i \in 1..Len(SelectSeq(NODE_SCHEMA(node.type),
                                  LAMBDA f : holdsNode(node, f))) |->
             node[SelectSeq(NODE_SCHEMA(node.type),
                            LAMBDA f : holdsNode(node, f))[i]]]

\* condition(node), for the conditions that accept the nodes of some kinds
condition(accepted, node) == node.type \in accepted

\* traverse on the nodes of pending, one after the other
RECURSIVE traverseEach(_, _)
traverseEach(pending, accepted) ==
    IF pending = <<>> THEN <<>>
    ELSE (IF condition(accepted, Head(pending)) THEN <<Head(pending)>>
          ELSE <<>>)
         \o traverseEach(traversed(Head(pending)) \o Tail(pending), accepted)

traverse(node, accepted) == traverseEach(<<node>>, accepted)

(***************************************************************************)
(* The specifications below each run one component; the others rest in    *)
(* the state their constructors leave them in.                             *)
(***************************************************************************)
LexerIdle ==
    /\ code = <<>>
    /\ curPos = 0
    /\ lexState = "done"
    /\ lexError = ""
    /\ quote = ""
    /\ string = ""
    /\ delimiterDepth = 0
    /\ start = 0
    /\ inComment = FALSE

NodesIdle ==
    /\ children = [n \in Nodes |-> <<>>]
    /\ nodeError = ""
    /\ traversal = newTraversal
    /\ returned = {}

(***************************************************************************)
(* Lexer specification                                                     *)
(***************************************************************************)
MaxBracketLen == 7
MaxCommentLen == 4
MaxQuoteLen == 4
MaxPlainLen == 3

BracketChars == {"[", "=", "]", "a"}
CommentChars == {"[", "=", "]", NEWLINE, "a"}
QuoteChars == {DQUOTE, SQUOTE, BACKSLASH, "n", "9", "7", " "}
PlainChars == {" ", "a", "9", ".", "<", "=", "~", "@", "-", CR}

\* quoted strings with one numeric escape: text, a backslash, digits, text
MaxEscapeDigits == 4
EscapeDigits == {"9", "7", "1"}
EscapeInputs ==
    {<<DQUOTE>> \o before \o <<BACKSLASH>> \o digits \o behind \o <<DQUOTE>> :
         before \in {<<>>, <<"a">>},
         digits \in SeqsUpTo(EscapeDigits, MaxEscapeDigits) \ {<<>>},
         behind \in {<<>>, <<"b">>, <<"b", "a">>}}

LexInputs ==
    SeqsUpTo(BracketChars, MaxBracketLen)
    \cup {<<"-", "-">> \o s : s \in SeqsUpTo(CommentChars, MaxCommentLen)}
    \cup SeqsUpTo(QuoteChars, MaxQuoteLen)
    \cup SeqsUpTo(PlainChars, MaxPlainLen)
    \cup EscapeInputs

\* new Lexer(code), code one of inputs
LexStart(inputs) ==
    /\ code \in inputs
    /\ curPos = 0
    /\ tokens = <<>>
    /\ lexState = "main"
    /\ lexError = ""
    /\ quote = ""
    /\ string = ""
    /\ delimiterDepth = 0
    /\ start = 0
    /\ inComment = FALSE
    /\ parser = newParser
    /\ compiler = newCompiler
    /\ NodesIdle

\* lex(): the loop test fails and the tokens are returned
LexReturn ==
    /\ lexState = "main"
    /\ curChar = NUL
    /\ lexState' = "done"
    /\ UNCHANGED <<code, curPos, tokens, lexError, quote, string,
                   delimiterDepth, start, inComment,
                   parser, compiler, children, nodeError, traversal, returned>>

\* lex(): one call of getNextToken, up to its return or to the loop of
\* consumeSimpleString or consumeDelimiter it enters
GetNextToken ==
    /\ lexState = "main"
    /\ curChar # NUL
    /\ LexApply(getNextToken)

StringStep ==
    /\ lexState = "string"
    /\ LexApply(consumeSimpleStringStep)

DelimiterStep ==
    /\ lexState = "delimiter"
    /\ LexApply(consumeDelimiterStep)

LexInit == LexStart(LexInputs)

LexNext == LexReturn \/ GetNextToken \/ StringStep \/ DelimiterStep

LexSpec == LexInit /\ [][LexNext]_vars

\* lex() is one synchronous call, so a step that can be taken is taken; the
\* inputs are the short ones over the characters that open a quoted string,
\* a long bracket or a comment
MaxFairLen == 3
FairChars == {DQUOTE, "[", "]", "-", "a"}

LexFairInit == LexStart(SeqsUpTo(FairChars, MaxFairLen))

LexFairSpec == LexFairInit /\ [][LexNext]_vars /\ WF_vars(LexNext)

(***************************************************************************)
(* Lexer properties.                                                       *)
(***************************************************************************)
\* s holds "]", n times "=", "]" from index i on
CloserAt(s, i, n) ==
    /\ i + n + 1 <= Len(s)
    /\ s[i] = "]"
    /\ \A j \in 1..n : s[i + j] = "="
    /\ s[i + n + 1] = "]"

\* the number of "=" behind the first character of s
OpeningDepth(s) == RunLength(LAMBDA c : c = "=", s, 2)

\* s is one long-bracket string and nothing else: an opening bracket of
\* depth n whose first matching closing bracket ends the input
IsOneLongBracket(s) ==
    LET n == OpeningDepth(s)
    IN  /\ Len(s) >= 2 * n + 4
        /\ s[1] = "["
        /\ s[n + 2] = "["
        /\ CloserAt(s, Len(s) - n - 1, n)
        /\ \A i \in (n + 3)..(Len(s) - n - 2) : ~CloserAt(s, i, n)

LongBracketContent(s) ==
    Join(SubSeq(s, OpeningDepth(s) + 3, Len(s) - OpeningDepth(s) - 2))

\* C3: an input that is one long-bracket string, closed by the first "]",
\* n times "=", "]" behind its opening bracket of depth n, lexes without an
\* error to exactly one String token holding the text between the brackets
C3_LongBracketClosesAtFirstMatch ==
    (lexState \in {"done", "error"} /\ IsOneLongBracket(code))
        => /\ lexState = "done"
           /\ tokens = <<Token("STRING", LongBracketContent(code))>>

\* the operators made of symbols that the input holds from position p on
SymbolOperatorsAt(p) ==
    {w \in OPERATOR_WORDS :
        /\ Join(w) \notin OPERATOR_KEYWORDS
        /\ \A i \in 1..Len(w) : getCharacterFromPosition(p + i - 1) = w[i]}

LongestOf(words) == CHOOSE w \in words : \A v \in words : Len(v) <= Len(w)

\* the input holds a comment or a vararg from position p on
OpensCommentOrVararg(p) ==
    \/ /\ getCharacterFromPosition(p) = "-"
       /\ getCharacterFromPosition(p + 1) = "-"
    \/ /\ getCharacterFromPosition(p) = "."
       /\ getCharacterFromPosition(p + 1) = "."
       /\ getCharacterFromPosition(p + 2) = "."

\* C15: a call of getNextToken at a position where operators made of
\* symbols match the input, and where no comment and no vararg begins,
\* appends exactly one Operator token, for the longest of the matching
\* operators, and moves the cursor by the length of that operator; and a
\* call that appends an Operator token made of symbols appends one for the
\* longest operator matching at the cursor, so a proper prefix of an
\* operator that is no operator is never an Operator token
C15_LongestOperatorMatch ==
    [][(lexState = "main" /\ curChar # NUL)
       => /\ (SymbolOperatorsAt(curPos) # {} /\ ~OpensCommentOrVararg(curPos))
              => /\ tokens' = Append(tokens,
                         Token("OPERATOR",
                               Join(LongestOf(SymbolOperatorsAt(curPos)))))
                 /\ curPos' = curPos + Len(LongestOf(SymbolOperatorsAt(curPos)))
          /\ ( /\ tokens' # tokens
               /\ tokens'[Len(tokens')].type = "OPERATOR"
               /\ tokens'[Len(tokens')].value \notin OPERATOR_KEYWORDS )
              => /\ SymbolOperatorsAt(curPos) # {}
                 /\ tokens' = Append(tokens,
                         Token("OPERATOR",
                               Join(LongestOf(SymbolOperatorsAt(curPos)))))
                 /\ curPos' = curPos + Len(LongestOf(SymbolOperatorsAt(curPos)))
      ]_vars

\* lex() has returned with one Operator token <= in front, for an input
\* that begins with <=
C15_Witness ==
    /\ lexState = "done"
    /\ Len(code) >= 2
    /\ code[1] = "<" /\ code[2] = "="
    /\ tokens[1] = Token("OPERATOR", "<=")

\* s is a quoted string whose only backslash is at index k, in front of a
\* digit
IsQuotedWithEscapeAt(s, k) ==
    /\ Len(s) >= 4
    /\ s[1] = DQUOTE /\ s[Len(s)] = DQUOTE
    /\ k \in 2..(Len(s) - 2)
    /\ s[k] = BACKSLASH
    /\ isNumber(s[k + 1])
    /\ \A i \in 2..(Len(s) - 1) :
           /\ s[i] # DQUOTE
           /\ s[i] = BACKSLASH => i = k

\* the length of the longest run of at most three digits from index i on
EscapeLength(s, i) ==
    IF ~isNumber(s[i + 1]) THEN 1
    ELSE IF ~isNumber(s[i + 2]) THEN 2
    ELSE 3

RECURSIVE DecimalOf(_)
DecimalOf(digits) ==
    IF digits = <<>> THEN 0
    ELSE 10 * DecimalOf(SubSeq(digits, 1, Len(digits) - 1))
             + (charCodeAt(digits[Len(digits)]) - 48)

\* the text of the quoted string s with its escape at index k
EscapedText(s, k) ==
    Join(SubSeq(s, 2, k - 1))
        \o fromCharCode(DecimalOf(SubSeq(s, k + 1,
                                         k + EscapeLength(s, k + 1))))
        \o Join(SubSeq(s, k + 1 + EscapeLength(s, k + 1), Len(s) - 1))

BackslashNineB == <<DQUOTE, BACKSLASH, "9", "b", DQUOTE>>
BackslashNinetySevenB == <<DQUOTE, BACKSLASH, "9", "7", "b", DQUOTE>>

\* C16: lex() on a quoted string with one backslash, in front of digits,
\* returns one String token: the text in front of the backslash, the
\* character whose code is the number of the longest run of at most three
\* digits, and the text behind that run; backslash 9 b gives a tab and b,
\* and backslash 97 b gives ab
C16_NumericEscapeReplaced ==
    /\ \A k \in 2..(Len(code) - 2) :
           (lexState \in {"done", "error"} /\ IsQuotedWithEscapeAt(code, k))
               => /\ lexState = "done"
                  /\ tokens = <<Token("STRING", EscapedText(code, k))>>
    /\ (lexState \in {"done", "error"} /\ code = BackslashNineB)
           => tokens = <<Token("STRING", TAB \o "b")>>
    /\ (lexState \in {"done", "error"} /\ code = BackslashNinetySevenB)
           => tokens = <<Token("STRING", "ab")>>

\* lex() has returned the String token ab for backslash 97 b
C16_Witness ==
    /\ lexState = "done"
    /\ code = BackslashNinetySevenB
    /\ tokens = <<Token("STRING", "ab")>>

\* s holds, behind its first off characters, an opening long bracket and
\* no closing bracket of the same depth behind it
EndsInsideLongBracket(s, off) ==
    LET n == RunLength(LAMBDA c : c = "=", s, off + 2)
    IN  /\ Len(s) >= off + n + 2
        /\ s[off + 1] = "["
        /\ s[off + n + 2] = "["
        /\ \A i \in (off + n + 3)..Len(s) : ~CloserAt(s, i, n)

EndsInsideLongComment(s) ==
    /\ Len(s) >= 2
    /\ s[1] = "-" /\ s[2] = "-"
    /\ EndsInsideLongBracket(s, 2)

\* the number of "=" of the bracket that opens behind the first off
\* characters of s
DepthBehind(s, off) == RunLength(LAMBDA c : c = "=", s, off + 2)

ExpectedCloserError(n) ==
    "Unexpected character '<EOF>', expected ']" \o Repeat("=", n) \o "]'"

\* C17: lex() on an input that is a long-bracket string or a long comment
\* of depth n without its closing bracket does not return tokens: it throws
\* the error that expects "]", n times "=", "]"
C17_UnterminatedLongBracketNamesCloser ==
    /\ (lexState \in {"done", "error"} /\ EndsInsideLongBracket(code, 0))
           => /\ lexState = "error"
              /\ lexError = ExpectedCloserError(DepthBehind(code, 0))
    /\ (lexState \in {"done", "error"} /\ EndsInsideLongComment(code))
           => /\ lexState = "error"
              /\ lexError = ExpectedCloserError(DepthBehind(code, 2))

\* lex() has thrown the error that expects ]=] for an input that begins
\* with [=[ and holds a character behind it
C17_Witness ==
    /\ lexState = "error"
    /\ Len(code) >= 4
    /\ SubSeq(code, 1, 3) = <<"[", "=", "[">>
    /\ lexError = "Unexpected character '<EOF>', expected ']=]'"

\* lex() has thrown the error that expects ]=] for a comment that begins
\* with --[=[
C17_CommentWitness ==
    /\ lexState = "error"
    /\ Len(code) >= 5
    /\ SubSeq(code, 1, 5) = <<"-", "-", "[", "=", "[">>
    /\ lexError = "Unexpected character '<EOF>', expected ']=]'"

\* the closing delimiters an error of consumeDelimiter can expect
ExpectedDelimiters ==
    {"["} \cup {"]" \o Repeat("=", n) \o "]" : n \in 0..MaxBracketLen}

\* the three messages of the lexer about the character c, with c rendered
\* by its name when it is a special character
RenderedMessages(c) ==
    {"Invalid character: " \o SPECIAL_CHARS_MAP(c),
     "Invalid escape sequence: \\" \o SPECIAL_CHARS_MAP(c)}
    \cup {"Unexpected character '" \o SPECIAL_CHARS_MAP(c) \o "', expected '"
              \o e \o "'" : e \in ExpectedDelimiters}

\* C18: an error of lex() is about the character under the cursor, and its
\* message renders that character by its name when it is the end of the
\* input, a space, a tab, a newline or a carriage return
C18_SpecialCharactersRenderedByName ==
    lexState = "error" => lexError \in RenderedMessages(curChar)

\* C4: on every input lex() returns its tokens or throws after finitely
\* many steps
C4_LexTerminates == <>(lexState \in {"done", "error"})

(***************************************************************************)
(* Parser specification                                                    *)
(***************************************************************************)
\* the state in which a call of method leaves the parser
Returned(r, method) ==
    [r EXCEPT !.state = IF r.error = "" THEN "done" ELSE "error",
              !.call = method]

\* new Parser(tokens).parse()
CallParse ==
    /\ parser.state = "new"
    /\ parser' = Returned(parse(parser), "parse")
    /\ UNCHANGED <<lexVars, compiler, children, nodeError, traversal, returned>>

\* new Parser(tokens).parseExpression()
CallParseExpression ==
    /\ parser.state = "new"
    /\ parser' = Returned(parseExpression(parser), "parseExpression")
    /\ UNCHANGED <<lexVars, compiler, children, nodeError, traversal, returned>>

ParseNext == CallParse \/ CallParseExpression


ParseInit ==
    /\ tokens \in ParseInputs
    /\ LexerIdle
    /\ parser = newParser
    /\ compiler = newCompiler
    /\ NodesIdle

ParseSpec == ParseInit /\ [][ParseNext]_vars

(***************************************************************************)
(* Parser properties                                                       *)
(***************************************************************************)
\* The classification rule read off the finished tree.  env is the sequence
\* of blocks around a node, outermost first, each with the names declared in
\* it so far and whether it is the body of a function.
BlockScope(isFunctionScope, names) ==
    [isFunctionScope |-> isFunctionScope, variables |-> Range(names)]
Declare(env, names) ==
    [env EXCEPT ![Len(env)].variables = @ \cup Range(names)]
Resolve(env, name) ==
    LET declaring == {i \in 1..Len(env) : name \in env[i].variables}
        innermost == CHOOSE i \in declaring : \A j \in declaring : j <= i
    IN  IF declaring = {} THEN "GLOBAL"
        ELSE IF \E j \in (innermost + 1)..Len(env) : env[j].isFunctionScope
        THEN "UPVALUE"
        ELSE "LOCAL"

RECURSIVE Classified(_, _)
RECURSIVE BlockClassified(_, _)
AllClassified(nodes, env) == \A i \in 1..Len(nodes) : Classified(nodes[i], env)
\* every identifier read in node, a node inside env, carries Resolve
Classified(node, env) ==
    CASE node.type = "VARIABLE" -> node.variableType = Resolve(env, node.name)
      [] node.type = "BINARY_OPERATOR" ->
             Classified(node.left, env) /\ Classified(node.right, env)
      [] node.type = "UNARY_OPERATOR" -> Classified(node.operand, env)
      [] node.type = "FUNCTION_CALL" ->
             /\ Classified(node.expression, env)
             /\ AllClassified(node.argumentsList.children, env)
      [] node.type = "ANONYMOUS_FUNCTION" ->
             BlockClassified(node.chunk.children,
                             Append(env, BlockScope(TRUE, node.parameters)))
      [] node.type = "LOCAL_ASSIGNMENT" ->
             \/ node.expressions = Null
             \/ AllClassified(node.expressions.children, env)
      [] node.type = "VARIABLE_ASSIGNMENT" ->
             /\ AllClassified(node.lvalues, env)
             /\ AllClassified(node.expressions.children, env)
      [] node.type = "FUNCTION_DECLARATION" ->
             /\ Classified(node.variable, env)
             /\ BlockClassified(node.chunk.children,
                                Append(env, BlockScope(TRUE, node.parameters)))
      [] node.type = "RETURN_STATEMENT" ->
             AllClassified(node.expressions.children, env)
      [] node.type = "DO_STATEMENT" ->
             BlockClassified(node.chunk.children,
                             Append(env, BlockScope(FALSE, <<>>)))
      [] node.type = "WHILE_STATEMENT" ->
             /\ Classified(node.condition, env)
             /\ BlockClassified(node.chunk.children,
                                Append(env, BlockScope(FALSE, <<>>)))
      [] OTHER -> TRUE
\* the statements of one block in order: a local statement declares its
\* names for the statements behind it
BlockClassified(statements, env) ==
    \/ statements = <<>>
    \/ /\ Classified(Head(statements), env)
       /\ BlockClassified(Tail(statements),
              IF Head(statements).type = "LOCAL_ASSIGNMENT"
              THEN Declare(env, Head(statements).locals) ELSE env)

UpvalueExample ==
    <<Kw("local"), Id("a"), Ch("="), Num("1"), Ch(";"),
      Kw("function"), Id("f"), Ch("("), Ch(")"),
      Kw("return"), Id("a"), Kw("end")>>
\* the identifier returned by the function of UpvalueExample
UpvalueExampleOperand ==
    parser.node.children[2].chunk.children[1].expressions.children[1]

\* C1: in a Program returned by parse() every identifier read as an operand
\* is classified by the innermost enclosing block that declares its name:
\* Local when no function body lies between that block and the identifier,
\* Upvalue when one does, Global when no enclosing block declares the name;
\* the a returned inside f of "local a = 1; function f() return a end" is
\* an Upvalue and the a of "return a" is a Global
C1_ScopeWalkClassification ==
    (parser.call = "parse" /\ parser.state = "done")
        => /\ BlockClassified(parser.node.children,
                              <<BlockScope(FALSE, <<>>)>>)
           /\ tokens = UpvalueExample
                  => UpvalueExampleOperand = UpvalueVariable("a")
           /\ tokens = <<Kw("return"), Id("a")>>
                  => parser.node.children[1].expressions.children[1]
                         = GlobalVariable("a")

C1_Witness ==
    /\ parser.call = "parse" /\ parser.state = "done"
    /\ tokens = UpvalueExample
    /\ UpvalueExampleOperand.variableType = "UPVALUE"

\* C2: parseExpression() on a p b q c, p and q binary operators other than
\* ^ and .. with the same precedence pair, returns
\* BinaryOperator(q, BinaryOperator(p, a, b), c)
C2_LeftAssociative ==
    \A p \in BINARY_OPERATORS \ {"^", ".."} :
    \A q \in BINARY_OPERATORS \ {"^", ".."} :
        ( /\ OPERATOR_PRECEDENCE(p) = OPERATOR_PRECEDENCE(q)
          /\ tokens = <<Id("a"), Op(p), Id("b"), Op(q), Id("c")>>
          /\ parser.call = "parseExpression" /\ parser.state = "done" )
        => parser.node =
               BinaryOperator(q, BinaryOperator(p, GlobalVariable("a"),
                                                   GlobalVariable("b")),
                              GlobalVariable("c"))

\* C13: parseExpression() on a ^ b ^ c returns BinaryOperator(^, a,
\* BinaryOperator(^, b, c)), and on a .. b .. c it returns
\* BinaryOperator(.., a, BinaryOperator(.., b, c))
C13_PowerAndConcatRightAssociative ==
    \A p \in {"^", ".."} :
        ( /\ tokens = <<Id("a"), Op(p), Id("b"), Op(p), Id("c")>>
          /\ parser.call = "parseExpression" )
        => /\ parser.state = "done"
           /\ parser.node =
                  BinaryOperator(p, GlobalVariable("a"),
                                 BinaryOperator(p, GlobalVariable("b"),
                                                   GlobalVariable("c")))

\* parseExpression() has returned a tree for a .. b .. c
C13_Witness ==
    /\ tokens = <<Id("a"), Op(".."), Id("b"), Op(".."), Id("c")>>
    /\ parser.call = "parseExpression"
    /\ parser.state = "done"
    /\ parser.node.type = "BINARY_OPERATOR"
    /\ parser.node.right.type = "BINARY_OPERATOR"

\* C14: for each unary operator u and each binary operator q,
\* parseExpression() on u a q b returns BinaryOperator(q, UnaryOperator(u,
\* a), b) when q is not ^ and UnaryOperator(u, BinaryOperator(^, a, b)) when
\* q is ^, and on a q u b it returns BinaryOperator(q, a, UnaryOperator(u,
\* b))
C14_UnaryBindsTighterExceptPower ==
    \A u \in UNARY_OPERATORS : \A q \in BINARY_OPERATORS :
        /\ ( /\ tokens = <<Op(u), Id("a"), Op(q), Id("b")>>
             /\ parser.call = "parseExpression" )
           => /\ parser.state = "done"
              /\ parser.node =
                     IF q = "^"
                     THEN UnaryOperator(u,
                              BinaryOperator(q, GlobalVariable("a"),
                                                GlobalVariable("b")))
                     ELSE BinaryOperator(q,
                              UnaryOperator(u, GlobalVariable("a")),
                              GlobalVariable("b"))
        /\ ( /\ tokens = <<Id("a"), Op(q), Op(u), Id("b")>>
             /\ parser.call = "parseExpression" )
           => /\ parser.state = "done"
              /\ parser.node =
                     BinaryOperator(q, GlobalVariable("a"),
                                    UnaryOperator(u, GlobalVariable("b")))

\* parseExpression() has returned a unary operator over a power for
\* not a ^ b
C14_Witness ==
    /\ tokens = <<Op("not"), Id("a"), Op("^"), Id("b")>>
    /\ parser.call = "parseExpression"
    /\ parser.state = "done"
    /\ parser.node.type = "UNARY_OPERATOR"
    /\ parser.node.operand.type = "BINARY_OPERATOR"

\* what a token adds to the number of open blocks behind it
BlockDelta(token) ==
    IF token.type # "KEYWORD" THEN 0
    ELSE IF token.value \in {"do", "then", "repeat", "function"} THEN 1
    ELSE IF token.value \in {"end", "until", "elseif"} THEN -1
    ELSE 0

\* the blocks open at the cursor position p, the program among them
RECURSIVE BlockDepth(_)
BlockDepth(p) ==
    IF p = 0 THEN 1 ELSE BlockDepth(p - 1) + BlockDelta(tokens[p])

\* C24: when parse() returns a Program, each statement was parsed with a
\* scope stack as deep as the blocks open at the statement's first token,
\* the scope stack is empty at the return, and in a program that is one
\* compound statement and a return of a name declared only inside that
\* statement the returned name is classified Global
C24_ParserScopesNestWithBlocks ==
    (parser.call = "parse" /\ parser.state = "done")
        => /\ parser.scopeStack = <<>>
           /\ \A i \in 1..Len(parser.visits) :
                  parser.visits[i][2] = BlockDepth(parser.visits[i][1])
           /\ tokens \in FollowedPrograms
                  => parser.node.children[Len(parser.node.children)]
                         = ReturnStatement(ExpressionList(
                               <<GlobalVariable(tokens[Len(tokens)].value)>>))

\* parse() has returned a Program for an if statement in a do block whose
\* inner statement was parsed with three scopes
C24_Witness ==
    /\ parser.call = "parse" /\ parser.state = "done"
    /\ Len(tokens) >= 2
    /\ tokens[2] = Kw("if")
    /\ \E i \in 1..Len(parser.visits) : parser.visits[i][2] = 3

\* The tokens a tree stands for, without the optional semicolons.
RECURSIVE Unparse(_)
RECURSIVE UnparseAll(_, _)
UnparseAll(nodes, separator) ==
    IF nodes = <<>> THEN <<>>
    ELSE IF Len(nodes) = 1 THEN Unparse(nodes[1])
    ELSE Unparse(Head(nodes)) \o separator \o UnparseAll(Tail(nodes), separator)
NameTokens(names) ==
    Flatten([i \in 1..Len(names) |->
                (IF i = 1 THEN <<>> ELSE <<Ch(",")>>)
                \o <<IF names[i] = "..." THEN Token("VARARG", "...")
                     ELSE Id(names[i])>>])
FunctionTokens(parameters, chunk) ==
    <<Ch("(")>> \o NameTokens(parameters) \o <<Ch(")")>>
        \o Unparse(chunk) \o <<Kw("end")>>
Unparse(node) ==
    CASE node.type \in {"PROGRAM", "CHUNK"} -> UnparseAll(node.children, <<>>)
      [] node.type = "EXPRESSION_LIST" ->
             UnparseAll(node.children, <<Ch(",")>>)
      [] node.type = "VARIABLE" -> <<Id(node.name)>>
      [] node.type = "NUMBER_LITERAL" -> <<Num(node.value)>>
      [] node.type = "STRING_LITERAL" -> <<Token("STRING", node.value)>>
      [] node.type = "VALUE_LITERAL" -> <<Token("CONSTANT", node.value)>>
      [] node.type = "VARARG_LITERAL" -> <<Token("VARARG", "...")>>
      [] node.type = "BINARY_OPERATOR" ->
             Unparse(node.left) \o <<Op(node.operator)>> \o Unparse(node.right)
      [] node.type = "UNARY_OPERATOR" ->
             <<Op(node.operator)>> \o Unparse(node.operand)
      [] node.type = "FUNCTION_CALL" ->
             Unparse(node.expression) \o <<Ch("(")>>
                 \o Unparse(node.argumentsList) \o <<Ch(")")>>
      [] node.type = "ANONYMOUS_FUNCTION" ->
             <<Kw("function")>> \o FunctionTokens(node.parameters, node.chunk)
      [] node.type = "LOCAL_ASSIGNMENT" ->
             <<Kw("local")>> \o NameTokens(node.locals)
                 \o (IF node.expressions = Null THEN <<>>
                     ELSE <<Ch("=")>> \o Unparse(node.expressions))
      [] node.type = "VARIABLE_ASSIGNMENT" ->
             UnparseAll(node.lvalues, <<Ch(",")>>) \o <<Ch("=")>>
                 \o Unparse(node.expressions)
      [] node.type = "FUNCTION_DECLARATION" ->
             <<Kw("function")>> \o Unparse(node.variable)
                 \o Flatten([i \in 1..Len(node.fields) |->
                        <<Ch(IF node.isMethod /\ i = Len(node.fields)
                             THEN ":" ELSE "."), Id(node.fields[i])>>])
                 \o FunctionTokens(node.parameters, node.chunk)
      [] node.type = "LOCAL_FUNCTION_DECLARATION" ->
             <<Kw("local"), Kw("function"), Id(node.name)>>
                 \o FunctionTokens(node.parameters, node.chunk)
      [] node.type = "RETURN_STATEMENT" ->
             <<Kw("return")>> \o Unparse(node.expressions)
      [] node.type = "BREAK_STATEMENT" -> <<Kw("break")>>
      [] node.type = "DO_STATEMENT" ->
             <<Kw("do")>> \o Unparse(node.chunk) \o <<Kw("end")>>
      [] node.type = "WHILE_STATEMENT" ->
             <<Kw("while")>> \o Unparse(node.condition) \o <<Kw("do")>>
                 \o Unparse(node.chunk) \o <<Kw("end")>>
      [] node.type = "REPEAT_UNTIL_STATEMENT" ->
             <<Kw("repeat")>> \o Unparse(node.chunk) \o <<Kw("until")>>
                 \o Unparse(node.condition)
      [] node.type = "NUMERIC_FOR_STATEMENT" ->
             <<Kw("for"), Id(node.variable), Ch("=")>> \o Unparse(node.start)
                 \o <<Ch(",")>> \o Unparse(node.end)
                 \o (IF node.step = Null THEN <<>>
                     ELSE <<Ch(",")>> \o Unparse(node.step))
                 \o <<Kw("do")>> \o Unparse(node.chunk) \o <<Kw("end")>>
      [] node.type = "GENERIC_FOR_STATEMENT" ->
             <<Kw("for")>> \o NameTokens(node.variables) \o <<Kw("in")>>
                 \o Unparse(node.generator)
                 \o (IF node.state = undefined THEN <<>>
                     ELSE <<Ch(",")>> \o Unparse(node.state))
                 \o (IF node.control = undefined THEN <<>>
                     ELSE <<Ch(",")>> \o Unparse(node.control))
                 \o <<Kw("do")>> \o Unparse(node.chunk) \o <<Kw("end")>>
      [] node.type = "IF_STATEMENT" ->
             Flatten([i \in 1..Len(node.branches.children) |->
                 (IF i = 1 THEN <<Kw("if")>>
                  ELSE IF node.branches.children[i].condition = Null
                  THEN <<Kw("else")>>
                  ELSE <<Kw("elseif")>>)
                 \o (IF node.branches.children[i].condition = Null THEN <<>>
                     ELSE Unparse(node.branches.children[i].condition)
                              \o <<Kw("then")>>)
                 \o Unparse(node.branches.children[i].chunk)])
                 \o <<Kw("end")>>

\* C9: parse() returns a Program only with the cursor behind the last token
\* and with every token of the input accounted for in the Program (its
\* tokens are the input without the optional semicolons), so no token is
\* left over behind the top-level block and none is skipped; on a program
\* followed by a stray end at top level parse() fails
C9_ParseConsumesEveryToken ==
    /\ (parser.call = "parse" /\ parser.state = "done")
           => /\ parser.position >= Len(tokens)
              /\ parser.node.type = "PROGRAM"
              /\ Unparse(parser.node)
                     = SelectSeq(tokens, LAMBDA t : t # Ch(";"))
    /\ ( /\ parser.call = "parse"
         /\ tokens # <<>>
         /\ tokens[Len(tokens)] = Kw("end")
         /\ SubSeq(tokens, 1, Len(tokens) - 1) \in Programs )
           => parser.state = "error"

\* parse() has returned a Program with a nested block for a stream of more
\* than eight tokens
C9_Witness ==
    /\ parser.call = "parse" /\ parser.state = "done"
    /\ Len(tokens) > 8
    /\ \E i \in 1..Len(parser.node.children) :
           parser.node.children[i].type = "DO_STATEMENT"

(***************************************************************************)
(* Compiler specification: new Compiler(new Parser(tokens).parse()) and    *)
(* compile(), one statement at a time.                                     *)
(***************************************************************************)
Str(value) == Token("STRING", value)

LocalStatements ==
    {<<Kw("local"), Id("a")>>,
     <<Kw("local"), Id("a"), Ch("="), Num("1")>>,
     <<Kw("local"), Id("b"), Ch("="), Num("1")>>,
     <<Kw("local"), Id("b"), Ch("="), Num("2")>>,
     <<Kw("local"), Id("b"), Ch("="), Id("a")>>,
     <<Kw("local"), Id("a"), Ch("="), Str("1")>>,
     <<Kw("local"), Id("a"), Ch(","), Id("b"), Ch("="), Num("1")>>,
     <<Kw("local"), Id("b"), Ch("="), Num("1"), Ch(","), Id("c")>>}

DoBlock(b) == <<Kw("do")>> \o b \o <<Kw("end")>>

\* the programs of local statements and do blocks: blocks of local
\* statements, a do block between two statements, and a do block in a do
\* block
LocalDoPrograms ==
    BlocksOf(LocalStatements)
    \cup {pre \o DoBlock(b) \o post :
              pre \in {<<>>, <<Kw("local"), Id("a"), Ch("="), Num("1")>>},
              b \in BlocksOf(LocalStatements),
              post \in {<<>>, <<Kw("local"), Id("b"), Ch("="), Id("a")>>}}
    \cup {DoBlock(s \o DoBlock(t)) :
              s \in LocalStatements \cup {<<>>}, t \in LocalStatements}

PoolingExample ==
    <<Kw("local"), Id("a"), Ch("="), Num("1"),
      Kw("local"), Id("b"), Ch("="), Num("1")>>
ArithmeticExample ==
    <<Kw("local"), Id("a"), Ch("="), Num("1"), Op("+"), Num("2"), Op("*"),
      Num("3")>>
WhileExample == <<Kw("while"), Id("a"), Kw("do"), Id("b"), Kw("end")>>
WhileCallExample ==
    <<Kw("while"), Id("a"), Kw("do"), Id("b"), Ch("("), Ch(")"), Kw("end")>>

\* local a = a
SelfInitialisedLocal == <<Kw("local"), Id("a"), Ch("="), Id("a")>>

\* local a = constructor, and the same behind a local in a do block
PrototypeKeyExamples ==
    {<<Kw("local"), Id("a"), Ch("="), Id("constructor")>>,
     DoBlock(<<Kw("local"), Id("b"), Kw("local"), Id("a"), Ch("="),
               Id("toString")>>)}

\* programs with three locals alive at once
ThreeLocalsExamples ==
    {<<Kw("local"), Id("a"), Ch("="), Num("1"),
       Kw("local"), Id("b"), Ch("="), Num("2"),
       Kw("local"), Id("c"), Ch("="), Num("3")>>,
     <<Kw("local"), Id("a"), Kw("local"), Id("b"),
       Kw("local"), Id("c"), Ch("="), Id("a")>>,
     <<Kw("local"), Id("a"), Kw("local"), Id("b")>>
         \o DoBlock(<<Kw("local"), Id("c"), Ch("="), Num("1")>>)}

CompileInputs ==
    LocalDoPrograms
    \cup PrototypeKeyExamples
    \cup ThreeLocalsExamples
    \cup {ArithmeticExample, WhileExample, WhileCallExample,
          SelfInitialisedLocal,
          <<Id("a"), Ch("="), Num("1")>>,
          <<Kw("local"), Id("a"), Ch("="), Op("-"), Num("1")>>,
          <<Kw("local"), Id("a"), Ch("="), Id("f"), Ch("("), Ch(")")>>}

\* a thrown Error ends compile()
Settled(c) == [c EXCEPT !.state = IF c.error # "" THEN "error" ELSE @]

\* new Compiler(ast).compile() up to the first statement of the program
CallCompile ==
    /\ parser.call = "parse"
    /\ parser.state = "done"
    /\ compiler.state = "new"
    /\ compiler' = Settled(compileChunk([compiler EXCEPT !.state = "running"],
                                        parser.node, TRUE, <<>>))
    /\ UNCHANGED <<lexVars, parser, children, nodeError, traversal, returned>>

\* the loop of compileChunk: compileStatementNode on the next statement
CompileStatement ==
    /\ compiler.state = "running"
    /\ compiler.work # <<>>
    /\ Head(compiler.work).kind = "statement"
    /\ compiler' = Settled(compileStatementNode(
                               [compiler EXCEPT !.work = Tail(@)],
                               Head(compiler.work).node))
    /\ UNCHANGED <<lexVars, parser, children, nodeError, traversal, returned>>

\* the end of compileChunk
PopScope ==
    /\ compiler.state = "running"
    /\ compiler.work # <<>>
    /\ Head(compiler.work).kind = "popScope"
    /\ compiler' = Settled(compilerPopScope(
                               [compiler EXCEPT !.work = Tail(@)]))
    /\ UNCHANGED <<lexVars, parser, children, nodeError, traversal, returned>>

\* the end of compile(): checkScopeStack and the return of the prototype
CompileReturn ==
    /\ compiler.state = "running"
    /\ compiler.work = <<>>
    /\ compiler' = Settled([checkScopeStack(compiler) EXCEPT
                                !.state = "done"])
    /\ UNCHANGED <<lexVars, parser, children, nodeError, traversal, returned>>

CompileInit ==
    /\ tokens \in CompileInputs
    /\ LexerIdle
    /\ parser = newParser
    /\ compiler = newCompiler
    /\ NodesIdle

CompileNext ==
    CallParse \/ CallCompile \/ CompileStatement \/ PopScope \/ CompileReturn

CompileSpec == CompileInit /\ [][CompileNext]_vars

(***************************************************************************)
(* Compiler properties                                                     *)
(***************************************************************************)
\* the expressions compile() compiles, in the order it compiles them
RECURSIVE ExpressionsOf(_)
ExpressionsOfStatement(node) ==
    IF node.type = "DO_STATEMENT" THEN ExpressionsOf(node.chunk.children)
    ELSE IF node.type = "LOCAL_ASSIGNMENT" /\ node.expressions # Null
    THEN node.expressions.children
    ELSE <<>>
ExpressionsOf(statements) ==
    IF statements = <<>> THEN <<>>
    ELSE ExpressionsOfStatement(Head(statements))
             \o ExpressionsOf(Tail(statements))

\* the constant an instruction refers to
ConstantOf(c, instruction) == c.constants[instruction.operands[2].value + 1]

\* the instruction loads the value of the expression node
RefersTo(c, instruction, node) ==
    CASE node.type = "NUMBER_LITERAL" ->
             /\ instruction.opcode = "LOADK"
             /\ instruction.operands[2].value < Len(c.constants)
             /\ ConstantOf(c, instruction)
                    = LuaConstant(LUA_TNUMBER, node.value)
      [] node.type = "STRING_LITERAL" ->
             /\ instruction.opcode = "LOADK"
             /\ instruction.operands[2].value < Len(c.constants)
             /\ ConstantOf(c, instruction)
                    = LuaConstant(LUA_TSTRING, node.value)
      [] node.type = "VARIABLE" ->
             \/ instruction.opcode = "MOVE"
             \/ /\ instruction.opcode = "GETGLOBAL"
                /\ instruction.operands[2].value < Len(c.constants)
                /\ ConstantOf(c, instruction)
                       = LuaConstant(LUA_TSTRING, node.name)
      [] OTHER -> FALSE

NoConstantTwice(constants) ==
    \A i \in 1..Len(constants) : \A j \in 1..Len(constants) :
        constants[i] = constants[j] => i = j

\* C5: while and after compile() compiles literal loads and global-name
\* loads into the prototype, no two entries of the constant pool have the
\* same tag and value, and each instruction emitted for a literal or a
\* global name carries the index of the pool entry with that tag and value;
\* a returned compile() has emitted one instruction for each expression, and
\* for "local a = 1; local b = 1" the pool is the one entry for the number
\* 1 and the code is two LOADK of constant 0
C5_ConstantPoolHasNoDuplicates ==
    compiler.state # "new"
        => /\ NoConstantTwice(compiler.constants)
           /\ Len(compiler.code) <= Len(ExpressionsOf(parser.node.children))
           /\ \A i \in 1..Len(compiler.code) :
                  RefersTo(compiler, compiler.code[i],
                           ExpressionsOf(parser.node.children)[i])
           /\ compiler.state = "done"
                  => Len(compiler.code)
                         = Len(ExpressionsOf(parser.node.children))
           /\ (compiler.state = "done" /\ tokens = PoolingExample)
                  => /\ compiler.constants = <<LuaConstant(LUA_TNUMBER, "1")>>
                     /\ compiler.code =
                            <<IRInstruction("LOADK",
                                  <<IROperand("Register", 0),
                                    IROperand("Constant", 0)>>),
                              IRInstruction("LOADK",
                                  <<IROperand("Register", 1),
                                    IROperand("Constant", 0)>>)>>

\* compile() has returned for "local a = 1; local b = 1", with two LOADK
\* and one constant
C5_Witness ==
    /\ compiler.state = "done"
    /\ tokens = PoolingExample
    /\ Len(compiler.code) = 2
    /\ Len(compiler.constants) = 1

\* C6: compiling the statement of "local a = 1 + 2 * 3" raises no error and
\* leaves the register counter one above its value before the statement
C6_RegisterCounterOneAbove ==
    [][( /\ tokens = ArithmeticExample
         /\ compiler.state = "running"
         /\ compiler.work # <<>>
         /\ Head(compiler.work).kind = "statement" )
       => /\ compiler'.state = "running"
          /\ compiler'.nextRegister = compiler.nextRegister + 1]_vars

\* the instruction a JMP at index i with a relative offset continues at
JumpTarget(instructions, i) == i + 1 + instructions[i].operands[1].value

\* a TEST and JMP pair whose jump leads behind the last instruction, which
\* is a JMP backwards
HasLoopJumps(instructions) ==
    /\ instructions # <<>>
    /\ instructions[Len(instructions)].opcode = "JMP"
    /\ JumpTarget(instructions, Len(instructions)) <= Len(instructions)
    /\ \E i \in 1..(Len(instructions) - 2) :
           /\ instructions[i].opcode = "TEST"
           /\ instructions[i + 1].opcode = "JMP"
           /\ JumpTarget(instructions, i + 1) = Len(instructions) + 1

\* C7: parse() and compile() on "while a do b end", and on the loop whose
\* body is the call b(), return a prototype whose code has a TEST and JMP
\* pair for the condition, the JMP leading to the instruction behind the
\* final JMP backwards
C7_WhileJumpsBackpatched ==
    ( /\ tokens \in {WhileExample, WhileCallExample}
      /\ \/ parser.state = "error"
         \/ compiler.state \in {"done", "error"} )
    => /\ compiler.state = "done"
       /\ HasLoopJumps(compiler.code)

\* C19: while and after compile() compiles the Program parse() returned,
\* the instruction emitted for a variable reference is a MOVE when the
\* parser classified the node Local and a GETGLOBAL when the parser
\* classified it Global
C19_CompilerAgreesWithClassification ==
    compiler.state # "new"
        => \A i \in 1..Len(compiler.code) :
               (i <= Len(ExpressionsOf(parser.node.children))
                /\ ExpressionsOf(parser.node.children)[i].type = "VARIABLE")
                   => /\ compiler.code[i].opcode = "MOVE"
                         <=> ExpressionsOf(parser.node.children)[i]
                                 .variableType = "LOCAL"
                      /\ compiler.code[i].opcode = "GETGLOBAL"
                         <=> ExpressionsOf(parser.node.children)[i]
                                 .variableType = "GLOBAL"

\* compileStatementNode is about to compile a local declaration
AtLocalAssignment ==
    /\ compiler.state = "running"
    /\ compiler.work # <<>>
    /\ Head(compiler.work).kind = "statement"
    /\ Head(compiler.work).node.type = "LOCAL_ASSIGNMENT"

\* the number of initializers of a local declaration
InitializersOf(node) ==
    IF node.expressions = Null THEN 0 ELSE Len(node.expressions.children)

\* C21: compiling a local declaration of the names n1..nk with m
\* initializers, when it raises no error, binds each name ni in the current
\* scope to the register i above the register counter before the
\* statement, emits one instruction for each initializer, and the
\* instruction of an initializer paired with a name has that name's
\* register as its target
C21_LocalsBoundInDeclarationOrder ==
    [][(AtLocalAssignment /\ compiler'.state = "running")
       => /\ \A i \in 1..Len(Head(compiler.work).node.locals) :
                 /\ hasLocal(currentScope(compiler'),
                             Head(compiler.work).node.locals[i])
                 /\ registerIn(currentScope(compiler'),
                               Head(compiler.work).node.locals[i])
                        = compiler.nextRegister + i
          /\ Len(compiler'.code)
                 = Len(compiler.code) + InitializersOf(Head(compiler.work).node)
          /\ \A i \in 1..Len(Head(compiler.work).node.locals) :
                 i <= InitializersOf(Head(compiler.work).node)
                     => compiler'.code[Len(compiler.code) + i]
                            .operands[1].value = compiler.nextRegister + i
      ]_vars

\* the chunks compileChunk has entered and not left: each has its closing
\* popScope() in the work
OpenChunks(c) == Len(SelectSeq(c.work, LAMBDA item : item.kind = "popScope"))

\* C22: while compile() runs, the scope stack is as deep as the chunks
\* entered and not yet left; popScope() never finds the stack empty; and
\* when compile() returns the prototype the scope stack is empty
C22_ScopesNestWithChunks ==
    /\ compiler.state = "running"
           => Len(compiler.scopeStack) = OpenChunks(compiler)
    /\ compiler.state = "done" => compiler.scopeStack = <<>>
    /\ compiler.error \notin {"No scope to pop", "Scope stack not empty"}

\* compile() is in a chunk of a do block in a do block
C22_Witness ==
    /\ compiler.state = "running"
    /\ Len(compiler.scopeStack) = 3
    /\ OpenChunks(compiler) = 3

\* the values of the register operands of the emitted instructions
RegisterOperands(c) ==
    {c.code[i].operands[j].value :
        <<i, j>> \in {<<k, l>> \in (1..Len(c.code)) \X (1..2) :
                          c.code[k].operands[l].type = "Register"}}

\* C28: in the prototype compile() returns, every register operand of an
\* emitted instruction is less than maxStackSize (for the programs whose
\* register operands are all register indices)
C28_RegisterOperandsBelowMaxStackSize ==
    (compiler.state = "done" /\ tokens \notin PrototypeKeyExamples)
        => \A register \in RegisterOperands(compiler) :
               register < compiler.maxStackSize

\* the scope has an entry for the name
Declares(scope, name) ==
    \E i \in 1..Len(scope.locals) : scope.locals[i].name = name

RegisterOf(scope, name) ==
    scope.locals[CHOOSE i \in 1..Len(scope.locals) :
                     scope.locals[i].name = name].register

Smaller(a, b) == IF a < b THEN a ELSE b

\* the scope stack when the j-th initializer of the local declaration node
\* is compiled from the compiler state c: the names paired with the
\* initializers up to the j-th are in the current scope
ScopesAt(c, node, j) ==
    [c.scopeStack EXCEPT ![Len(c.scopeStack)].locals =
        @ \o [i \in 1..Smaller(j, Len(node.locals)) |->
                 [name |-> node.locals[i], register |-> c.nextRegister + i]]]

\* the register the j-th initializer is compiled into
TargetAt(c, node, j) ==
    IF j <= Len(node.locals) THEN c.nextRegister + j
    ELSE c.nextRegister + Len(node.locals) + 1

\* the instruction is the access to the name under the scopes: a MOVE from
\* the register of the innermost scope that declares the name, or a
\* GETGLOBAL of the string constant of the name when no scope declares it
IsAccessTo(instruction, name, scopes, constants, target) ==
    LET declaring == {k \in 1..Len(scopes) : Declares(scopes[k], name)}
    IN  /\ instruction.operands[1] = IROperand("Register", target)
        /\ IF declaring # {}
           THEN /\ instruction.opcode = "MOVE"
                /\ instruction.operands[2] =
                       IROperand("Register",
                           RegisterOf(scopes[CHOOSE k \in declaring :
                                                 \A l \in declaring : l <= k],
                                      name))
           ELSE /\ instruction.opcode = "GETGLOBAL"
                /\ instruction.operands[2].type = "Constant"
                /\ instruction.operands[2].value \in 0..(Len(constants) - 1)
                /\ constants[instruction.operands[2].value + 1]
                       = LuaConstant(LUA_TSTRING, name)

\* C23: the instruction compile() emits for a variable reference is a MOVE
\* from the register of the local of that name in the innermost scope on
\* the scope stack that declares it, and a GETGLOBAL of the pooled string
\* constant of the name when no scope on the stack declares it
C23_VariableResolvedInInnermostScope ==
    [][(AtLocalAssignment /\ compiler'.state = "running")
       => \A j \in 1..InitializersOf(Head(compiler.work).node) :
              Head(compiler.work).node.expressions.children[j].type
                      = "VARIABLE"
                  => /\ Len(compiler.code) + j <= Len(compiler'.code)
                     /\ IsAccessTo(
                            compiler'.code[Len(compiler.code) + j],
                            Head(compiler.work).node.expressions
                                .children[j].name,
                            ScopesAt(compiler, Head(compiler.work).node, j),
                            compiler'.constants,
                            TargetAt(compiler, Head(compiler.work).node, j))
      ]_vars

\* C8: for a program of local statements and do blocks over number, string
\* and variable expressions, parse() returns a Program and compile() on it
\* raises no error
C8_CompileRaisesOnlyOnMalformedTree ==
    tokens \in LocalDoPrograms
        => /\ parser.state # "error"
           /\ compiler.state # "error"

(***************************************************************************)
(* List node specification: any calls of the four methods, on any of the   *)
(* nodes with any of the nodes as arguments.                               *)
(***************************************************************************)
MaxChildren == 2

\* the arrays given to addChildren and removeChildren: up to two nodes
NodeArrays ==
    {<<>>} \cup {<<n>> : n \in Nodes} \cup {<<n, m>> : n \in Nodes, m \in Nodes}

RECURSIVE ChildrenUpTo(_)
\* the number of entries in the child lists of the nodes 1..n
ChildrenUpTo(n) ==
    IF n = 0 THEN 0 ELSE Len(children[n]) + ChildrenUpTo(n - 1)

\* this.addChild(node)
AddChild ==
    \E this \in Nodes, node \in Nodes :
        /\ ChildrenUpTo(MaxNodes) + 1 <= MaxChildren
        /\ children' = addChild(children, this, node).children
        /\ nodeError' = addChild(children, this, node).error
        /\ UNCHANGED <<lexVars, parser, compiler, traversal, returned>>

\* this.addChildren(nodes)
AddChildren ==
    \E this \in Nodes, nodes \in NodeArrays :
        /\ ChildrenUpTo(MaxNodes) + Len(nodes) <= MaxChildren
        /\ children' = addChildren(children, this, nodes).children
        /\ nodeError' = addChildren(children, this, nodes).error
        /\ UNCHANGED <<lexVars, parser, compiler, traversal, returned>>

\* this.removeChild(node)
RemoveChildOf(this, node) ==
    /\ children' = removeChild(children, this, node).children
    /\ nodeError' = removeChild(children, this, node).error
    /\ UNCHANGED <<lexVars, parser, compiler, traversal, returned>>

RemoveChild == \E this \in Nodes, node \in Nodes : RemoveChildOf(this, node)

\* this.removeChildren(nodes)
RemoveChildren ==
    \E this \in Nodes, nodes \in NodeArrays :
        /\ children' = removeChildren(children, this, nodes).children
        /\ nodeError' = removeChildren(children, this, nodes).error
        /\ UNCHANGED <<lexVars, parser, compiler, traversal, returned>>

NodeInit ==
    /\ tokens = <<>>
    /\ LexerIdle
    /\ parser = newParser
    /\ compiler = newCompiler
    /\ NodesIdle

NodeNext == AddChild \/ AddChildren \/ RemoveChild \/ RemoveChildren

NodeSpec == NodeInit /\ [][NodeNext]_vars

(***************************************************************************)
(* List node properties                                                    *)
(***************************************************************************)
RECURSIVE DescendantsWithin(_, _)
\* the nodes reached from the nodes of S by one to k steps to a child
DescendantsWithin(S, k) ==
    IF k = 0 THEN {}
    ELSE UNION {Range(children[n]) : n \in S}
         \cup DescendantsWithin(UNION {Range(children[n]) : n \in S}, k - 1)

C10_AcyclicSingleOwner ==
    /\ \A p \in Nodes, q \in Nodes :
           p # q => Range(children[p]) \cap Range(children[q]) = {}
    /\ \A p \in Nodes : \A i \in 1..Len(children[p]) :
           \A j \in 1..Len(children[p]) :
               children[p][i] = children[p][j] => i = j
    /\ \A n \in Nodes : n \notin DescendantsWithin({n}, MaxNodes)

(***************************************************************************)
(* Traversal specification: parse() on a program, then traverse on the     *)
(* Program with a condition that accepts the nodes of some kinds.          *)
(***************************************************************************)
NodeTypes ==
    {"PROGRAM", "CHUNK", "EXPRESSION_LIST", "VARIABLE", "NUMBER_LITERAL",
     "STRING_LITERAL", "VALUE_LITERAL", "VARARG_LITERAL", "BINARY_OPERATOR",
     "UNARY_OPERATOR", "FUNCTION_CALL", "ANONYMOUS_FUNCTION",
     "LOCAL_ASSIGNMENT", "VARIABLE_ASSIGNMENT", "FUNCTION_DECLARATION",
     "LOCAL_FUNCTION_DECLARATION", "RETURN_STATEMENT", "BREAK_STATEMENT",
     "DO_STATEMENT", "WHILE_STATEMENT", "REPEAT_UNTIL_STATEMENT",
     "NUMERIC_FOR_STATEMENT", "GENERIC_FOR_STATEMENT", "IF_BRANCH",
     "IF_BRANCH_LIST", "IF_STATEMENT"}

\* the conditions: every node, no node, the nodes of one kind
Conditions == {NodeTypes, {}, {"VARIABLE"}, {"NUMBER_LITERAL"}}

FunctionExample ==
    <<Kw("function"), Id("f"), Ch("("), Ch(")"), Kw("return"), Num("1"),
      Kw("end")>>

TraverseInputs ==
    SimpleStatements \cup CompoundStatements \cup {FunctionExample}

\* program.traverse(condition, callback)
CallTraverse ==
    /\ parser.call = "parse"
    /\ parser.state = "done"
    /\ traversal.state = "new"
    /\ \E accepted \in Conditions :
           traversal' =
               [state |-> "done", condition |-> accepted,
                visited |-> traverse(parser.node, accepted)]
    /\ UNCHANGED <<lexVars, parser, compiler, children, nodeError, returned>>

TraverseInit ==
    /\ tokens \in TraverseInputs
    /\ LexerIdle
    /\ parser = newParser
    /\ compiler = newCompiler
    /\ NodesIdle

TraverseNext == CallParse \/ CallTraverse

TraverseSpec == TraverseInit /\ [][TraverseNext]_vars

(***************************************************************************)
(* Traversal properties                                                    *)
(***************************************************************************)
\* the nodes a node holds, in the order its class declares them
PartsOf(node) ==
    CASE node.type \in {"PROGRAM", "CHUNK", "EXPRESSION_LIST",
                        "IF_BRANCH_LIST"} -> node.children
      [] node.type = "BINARY_OPERATOR" -> <<node.left, node.right>>
      [] node.type = "UNARY_OPERATOR" -> <<node.operand>>
      [] node.type = "FUNCTION_CALL" -> <<node.expression, node.argumentsList>>
      [] node.type = "ANONYMOUS_FUNCTION" -> <<node.chunk>>
      [] node.type = "LOCAL_ASSIGNMENT" ->
             IF node.expressions = Null THEN <<>> ELSE <<node.expressions>>
      [] node.type = "VARIABLE_ASSIGNMENT" ->
             node.lvalues \o <<node.expressions>>
      [] node.type = "FUNCTION_DECLARATION" -> <<node.variable, node.chunk>>
      [] node.type = "LOCAL_FUNCTION_DECLARATION" -> <<node.chunk>>
      [] node.type = "RETURN_STATEMENT" -> <<node.expressions>>
      [] node.type = "DO_STATEMENT" -> <<node.chunk>>
      [] node.type = "WHILE_STATEMENT" -> <<node.condition, node.chunk>>
      [] node.type = "REPEAT_UNTIL_STATEMENT" ->
             <<node.condition, node.chunk>>
      [] node.type = "NUMERIC_FOR_STATEMENT" ->
             SelectSeq(<<node.start, node.end, node.step, node.chunk>>,
                       LAMBDA n : n \notin {Null, undefined})
      [] node.type = "GENERIC_FOR_STATEMENT" ->
             SelectSeq(<<node.generator, node.state, node.control,
                         node.chunk>>,
                       LAMBDA n : n \notin {Null, undefined})
      [] node.type = "IF_BRANCH" ->
             SelectSeq(<<node.condition, node.chunk>>,
                       LAMBDA n : n \notin {Null, undefined})
      [] node.type = "IF_STATEMENT" -> <<node.branches>>
      [] OTHER -> <<>>

\* the nodes of the trees of pending in pre-order
RECURSIVE PreOrder(_)
PreOrder(pending) ==
    IF pending = <<>> THEN <<>>
    ELSE <<Head(pending)>> \o PreOrder(PartsOf(Head(pending)) \o Tail(pending))

\* the function declaration of FunctionExample
FunctionExampleDeclaration == parser.node.children[1]

\* C11: traverse calls the callback on the nodes of the tree that the
\* condition accepts, each once, in pre-order, and on no other node; on the
\* Program of "function f() return 1 end" with a condition that accepts
\* every node it calls it on the declaration, its variable, its chunk and
\* the number
C11_TraverseVisitsAcceptedNodesInPreOrder ==
    traversal.state = "done"
        => /\ traversal.visited
                  = SelectSeq(PreOrder(<<parser.node>>),
                              LAMBDA n : condition(traversal.condition, n))
           /\ (tokens = FunctionExample /\ traversal.condition = NodeTypes)
                  => {FunctionExampleDeclaration,
                      FunctionExampleDeclaration.variable,
                      FunctionExampleDeclaration.chunk,
                      NumberLiteral("1")} \subseteq Range(traversal.visited)

(***************************************************************************)
(* Parser properties over the nodes of the tree                            *)
(***************************************************************************)
FunctionTypes ==
    {"ANONYMOUS_FUNCTION", "FUNCTION_DECLARATION", "LOCAL_FUNCTION_DECLARATION"}

\* the identifiers read in node, each with the number of function bodies
\* between node and the identifier, node being behind crossed of them
RECURSIVE ReadsOf(_, _)
ReadsOf(node, crossed) ==
    IF node.type = "VARIABLE"
    THEN {[name |-> node.name, variableType |-> node.variableType,
           crossed |-> crossed]}
    ELSE UNION {ReadsOf(PartsOf(node)[i],
                        IF /\ node.type \in FunctionTypes
                           /\ PartsOf(node)[i].type = "CHUNK"
                        THEN crossed + 1 ELSE crossed) :
                    i \in DOMAIN PartsOf(node)}

\* the nodes of the Program that parse() returned
ParsedNodes == Range(PreOrder(<<parser.node>>))

\* an identifier declared by the block it is read in, or by a block around
\* the function it is read in
DeclaredAround(read) ==
    read.variableType = (IF read.crossed = 0 THEN "LOCAL" ELSE "UPVALUE")

\* C25: in a Program returned by parse(), an identifier self read in the
\* body of a declaration function t:m(...) that declares no self of its
\* own is Local when read in the body itself and Upvalue when read in a
\* function nested in the body
C25_MethodBodyReadsSelfAsLocal ==
    (parser.call = "parse" /\ parser.state = "done")
        => \A n \in ParsedNodes :
               (n.type = "FUNCTION_DECLARATION" /\ n.isMethod)
                   => \A read \in ReadsOf(n.chunk, 0) :
                          read.name = "self" => DeclaredAround(read)

\* the names a for statement declares for its body
LoopVariables(node) ==
    IF node.type = "NUMERIC_FOR_STATEMENT" THEN {node.variable}
    ELSE Range(node.variables)

\* C26: in a Program returned by parse(), an identifier with the name of a
\* loop variable read in the body of that for statement is Local, and
\* Upvalue in a function nested in the body that does not declare the
\* name again; behind the end of a for statement that is the first
\* statement of the program the name is Global
C26_LoopVariablesLocalInBody ==
    (parser.call = "parse" /\ parser.state = "done")
        => /\ \A n \in ParsedNodes :
                  n.type \in {"NUMERIC_FOR_STATEMENT", "GENERIC_FOR_STATEMENT"}
                      => \A read \in ReadsOf(n.chunk, 0) :
                             read.name \in LoopVariables(n)
                                 => DeclaredAround(read)
           /\ (tokens \in FollowedPrograms /\ tokens[1] = Kw("for"))
                  => parser.node.children[2]
                         = ReturnStatement(ExpressionList(
                               <<GlobalVariable(tokens[Len(tokens)].value)>>))

\* C27: in a Program returned by parse(), behind a statement
\* local function f(...) whose body declares no f of its own, an
\* identifier f read in the body of the function is an Upvalue and an
\* identifier f read in a later statement of the same block, outside any
\* nested function, is Local
C27_LocalFunctionNameDeclared ==
    (parser.call = "parse" /\ parser.state = "done")
        => \A block \in ParsedNodes :
               block.type \in {"PROGRAM", "CHUNK"}
                   => \A i \in 1..Len(block.children) :
                          block.children[i].type = "LOCAL_FUNCTION_DECLARATION"
                              => /\ \A read \in
                                        ReadsOf(block.children[i].chunk, 0) :
                                        read.name = block.children[i].name
                                            => read.variableType = "UPVALUE"
                                 /\ \A j \in (i + 1)..Len(block.children) :
                                        \A read \in
                                            ReadsOf(block.children[j], 0) :
                                            (/\ read.name
                                                    = block.children[i].name
                                             /\ read.crossed = 0)
                                                => read.variableType = "LOCAL"

\* C30: in a Program returned by parse() every target of a
\* VariableAssignment is a variable or a table index, and parse() returns
\* no Program for 1 = 2 or for another assignment to a literal or a call
C30_AssignmentTargetsAreVariables ==
    (parser.call = "parse" /\ parser.state = "done")
        => /\ \A n \in ParsedNodes :
                  n.type = "VARIABLE_ASSIGNMENT"
                      => \A i \in 1..Len(n.lvalues) :
                             n.lvalues[i].type \in {"VARIABLE", "TABLE_INDEX"}
           /\ tokens \notin TargetExamples

\* how often the node is in the sequence of nodes
Occurrences(nodes, node) == Len(SelectSeq(nodes, LAMBDA n : n = node))

\* C29: traverse on a Program returned by parse(), with a condition that
\* accepts every node, calls the callback as often as the tree has nodes,
\* and on each node of the tree (the targets of an assignment, the
\* arguments of a call and the variable of a function declaration among
\* them) as often as the node is in the tree
C29_TraverseVisitsEveryNodeOnce ==
    (traversal.state = "done" /\ traversal.condition = NodeTypes)
        => /\ Len(traversal.visited) = Len(PreOrder(<<parser.node>>))
           /\ \A n \in ParsedNodes :
                  Occurrences(traversal.visited, n)
                      = Occurrences(PreOrder(<<parser.node>>), n)

(***************************************************************************)
(* Register specification: any calls of allocateRegister and freeRegister  *)
(* on a new Compiler.  The counter is kept within MaxRegisters of zero.    *)
(***************************************************************************)
MaxRegisters == 4

AllocateRegister ==
    /\ compiler.nextRegister < MaxRegisters
    /\ compiler' = allocateRegister(compiler)
    /\ returned' = returned \cup {allocateRegister(compiler).nextRegister}
    /\ UNCHANGED <<lexVars, parser, children, nodeError, traversal>>

FreeRegister ==
    /\ compiler.nextRegister > -MaxRegisters
    /\ compiler' = freeRegister(compiler)
    /\ UNCHANGED <<lexVars, parser, children, nodeError, traversal, returned>>

RegisterInit ==
    /\ tokens = <<>>
    /\ LexerIdle
    /\ parser = newParser
    /\ compiler = newCompiler
    /\ NodesIdle

RegisterNext == AllocateRegister \/ FreeRegister

RegisterSpec == RegisterInit /\ [][RegisterNext]_vars

(***************************************************************************)
(* Register properties                                                     *)
(***************************************************************************)
\* C20: allocateRegister raises the counter by one, returns the new value
\* and raises maxStackSize to it when it is greater; freeRegister lowers
\* the counter by one and leaves maxStackSize alone; over any calls of the
\* two maxStackSize never decreases and is never less than a register that
\* allocateRegister has returned
C20_MaxStackSizeCoversAllocatedRegisters ==
    /\ [](\A r \in returned : compiler.maxStackSize >= r)
    /\ [][/\ compiler'.maxStackSize >= compiler.maxStackSize
          /\ AllocateRegister
                 => /\ compiler'.nextRegister = compiler.nextRegister + 1
                    /\ returned' = returned \cup {compiler.nextRegister + 1}
                    /\ compiler'.maxStackSize =
                           IF compiler.maxStackSize < compiler.nextRegister + 1
                           THEN compiler.nextRegister + 1
                           ELSE compiler.maxStackSize
          /\ FreeRegister
                 => /\ compiler'.nextRegister = compiler.nextRegister - 1
                    /\ compiler'.maxStackSize = compiler.maxStackSize
                    /\ returned' = returned]_vars

\* allocateRegister has returned a register above the initial maxStackSize
\* and freeRegister has lowered the counter below zero since
C20_Witness ==
    /\ \E r \in returned : r > 2
    /\ compiler.maxStackSize > 2
    /\ compiler.nextRegister < 0

=============================================================================
